---- MODULE Spec2Model ----
(***************************************************************************)
(* A model of the GraphQL tutorial applications.                           *)
(*                                                                         *)
(* App 3 (filtering, sorting, pagination): the product store and the two   *)
(* list resolvers Query.resolve_products_filtered (offset pagination) and  *)
(* Query.resolve_products_paginated (cursor pagination), together with a   *)
(* client that walks the pages of one listing; the aggregate resolver      *)
(* Query.resolve_avg_product_price.                                        *)
(*                                                                         *)
(* App 5 (performance): Organization.get_employee_count_cached in front of *)
(* the Employee table, and Query.resolve_performance_summary over the      *)
(* Performance table.                                                      *)
(*                                                                         *)
(* App 4 (authentication): the register and login mutations over the User  *)
(* table and the activity log.                                             *)
(*                                                                         *)
(* App 2 (mutations): the create / update / delete mutations over authors, *)
(* publishers, books and reviews.                                          *)
(*                                                                         *)
(* Each application has its own variables and its own specification; the   *)
(* variables of the other applications do not change under it.             *)
(*                                                                         *)
(* Conventions.  An optional (nullable) GraphQL argument is a sequence of  *)
(* length at most one: NULL is the absent / null value, Some(v) a supplied *)
(* one.  A Python string is the sequence of its characters.  A cursor      *)
(* token is the sequence of the parts the f-string concatenates.           *)
(***************************************************************************)
EXTENDS Integers, Sequences, FiniteSets, TLC

VARIABLES
    products,       \* app 3: the Product table, in insertion order (row i has id i)
    response,       \* app 3: the answer of the resolver call in progress, or NoResponse
    client,         \* app 3: the client walking the pages of one listing
    employees,      \* app 5: the Employee table (row i has id i; a deleted row is NULL)
    cache,          \* app 5: Django's cache, key -> entry
    performances,   \* app 5: the Performance table, in insertion order
    reply5,         \* app 5: the answer of the call in progress, or NoResponse
    test_results,   \* app 5: the TestResult table, in insertion order
    loader,         \* app 5: one DataLoader object: its batch_fn, queue and cache
    promises,       \* app 5: the promises handed out by DataLoader.load, by number
    batch_calls,    \* app 5: the key lists batch_fn was called with, in order
    loader_op,      \* app 5: the last call made on the DataLoader and its outcome
    users,          \* app 4: the User table, in insertion order (row i has id i)
    activity_logs,  \* app 4: the ActivityLog table, in insertion order
    reply4,         \* app 4: the answer of the mutation in progress, or NoResponse
    profiles,       \* app 4: the UserProfile rows (row i is the profile of user i)
    posts,          \* app 4: the Post table (row i has id i; a deleted row is NULL)
    comments,       \* app 4: the Comment table (row i has id i; a deleted row is NULL)
    authors,        \* app 2: the Author table (row i has id i; a deleted row is NULL)
    publishers,     \* app 2: the Publisher table
    books,          \* app 2: the Book table
    reviews,        \* app 2: the Review table
    reply2          \* app 2: the answer of the mutation in progress, or NoResponse

vars == <<products, response, client>>
varsT == <<test_results>>
varsL == <<loader, promises, batch_calls, loader_op>>
vars5 == <<employees, cache, performances, reply5, varsT, varsL>>
varsP == <<profiles, posts, comments>>
vars4 == <<users, activity_logs, reply4, varsP>>
vars2 == <<authors, publishers, books, reviews, reply2>>
allvars == <<vars, vars5, vars4, vars2>>

(***************************************************************************)
(* Bounds of the model.                                                    *)
(***************************************************************************)
MaxProducts == 4      \* rows the Product table may hold
MaxFetches == 3       \* pages a cursor walk fetches before the client gives up

(***************************************************************************)
(* Values.                                                                 *)
(***************************************************************************)
NULL == <<>>
Some(v) == <<v>>

Str1(a) == <<a>>
Str2(a, b) == <<a, b>>

\* str.lower() / the case folding of icontains, on one character
Lower(c) ==
    CASE c = "A" -> "a"
      [] c = "B" -> "b"
      [] c = "C" -> "c"
      [] OTHER -> c

\* the code point of a character (the order a text column sorts by)
Ord(c) ==
    CASE c = "A" -> 65
      [] c = "B" -> 66
      [] c = "C" -> 67
      [] c = "a" -> 97
      [] c = "b" -> 98
      [] c = "c" -> 99

Min(a, b) == IF a <= b THEN a ELSE b

Range(s) == {s[i] : i \in 1..Len(s)}

\* Python's s[lo:hi] on a sequence, for 0 <= lo and 0 <= hi
Slice(s, lo, hi) ==
    LET a == Min(lo, Len(s))
        b == Min(hi, Len(s))
    IN  IF b <= a THEN <<>> ELSE SubSeq(s, a + 1, b)

\* Python's a // b (floor division), for b # 0
FloorDiv(a, b) == IF b > 0 THEN a \div b ELSE (0 - a) \div (0 - b)

(***************************************************************************)
(* The Product table.                                                      *)
(***************************************************************************)
\* The rows a Product.objects.create may insert: slug and sku are unique,
\* so each row of the catalogue is inserted at most once.  Two rows share a
\* price, two a rating, two names differ only in case.
Catalogue ==
    { [slug |-> "laptop", name |-> Str2("A", "b"), category_id |-> 1,
       is_active |-> TRUE, is_featured |-> TRUE, price |-> 20, rating |-> 4,
       stock_quantity |-> 3],
      [slug |-> "mouse", name |-> Str1("b"), category_id |-> 1,
       is_active |-> TRUE, is_featured |-> FALSE, price |-> 20, rating |-> 3,
       stock_quantity |-> 0],
      [slug |-> "t-shirt", name |-> Str2("a", "B"), category_id |-> 2,
       is_active |-> FALSE, is_featured |-> FALSE, price |-> 10, rating |-> 4,
       stock_quantity |-> 1],
      [slug |-> "novel", name |-> Str1("C"), category_id |-> 2,
       is_active |-> TRUE, is_featured |-> FALSE, price |-> 30, rating |-> 0,
       stock_quantity |-> 0],
      [slug |-> "python-book", name |-> Str2("b", "c"), category_id |-> 2,
       is_active |-> TRUE, is_featured |-> TRUE, price |-> 10, rating |-> 3,
       stock_quantity |-> 2] }

\* The row a create stores: the id is the next auto-increment value and
\* created_at (auto_now_add) the time of the insert, later than every
\* earlier row's.
NewProduct(t, n) ==
    [id |-> n, slug |-> t.slug, name |-> t.name, category_id |-> t.category_id,
     is_active |-> t.is_active, is_featured |-> t.is_featured,
     price |-> t.price, rating |-> t.rating,
     stock_quantity |-> t.stock_quantity, created_at |-> n]

\* Product.objects.all()
AllProducts == Range(products)

ProductById(i) == products[i]

(***************************************************************************)
(* Request inputs (ProductFilterInput, SortInput, page, page_size).        *)
(***************************************************************************)
\* ProductFilterInput with no key supplied
NoKeys ==
    [name |-> NULL, category_id |-> NULL, is_active |-> NULL,
     is_featured |-> NULL, price_min |-> NULL, price_max |-> NULL,
     rating_min |-> NULL, has_stock |-> NULL]

\* one key supplied, with a falsy and a truthy value where the type has both
OneKey ==
    {[NoKeys EXCEPT !.name = Some(v)] : v \in {<<>>, Str1("b"), Str2("a", "b")}}
    \cup {[NoKeys EXCEPT !.category_id = Some(v)] : v \in {0, 1, 2}}
    \cup {[NoKeys EXCEPT !.is_active = Some(v)] : v \in BOOLEAN}
    \cup {[NoKeys EXCEPT !.is_featured = Some(v)] : v \in BOOLEAN}
    \cup {[NoKeys EXCEPT !.price_min = Some(v)] : v \in {0, 20}}
    \cup {[NoKeys EXCEPT !.price_max = Some(v)] : v \in {0, 20}}
    \cup {[NoKeys EXCEPT !.rating_min = Some(v)] : v \in {0, 4}}
    \cup {[NoKeys EXCEPT !.has_stock = Some(v)] : v \in BOOLEAN}

\* several keys supplied (as in TestFiltering.test_combined_filters)
ManyKeys ==
    { [NoKeys EXCEPT !.category_id = Some(1), !.is_active = Some(TRUE),
                     !.price_min = Some(20)],
      [NoKeys EXCEPT !.price_min = Some(20), !.price_max = Some(20)],
      [NoKeys EXCEPT !.name = Some(Str1("B")), !.has_stock = Some(TRUE),
                     !.rating_min = Some(4)] }

\* the values of the filters argument: absent, or a ProductFilterInput
FilterInputs == {NULL} \cup {Some(f) : f \in {NoKeys} \cup OneKey \cup ManyKeys}

\* the values of the sort argument: absent, or a SortInput (field required)
SortInputs ==
    {NULL}
    \cup {Some([field |-> f, order |-> o]) :
            f \in {"price", "rating"}, o \in {Some("asc"), Some("desc")}}
    \cup { Some([field |-> "name", order |-> NULL]),
           Some([field |-> "created_at", order |-> Some("asc")]),
           Some([field |-> "stock_quantity", order |-> Some("asc")]) }

PageInputs == {-1, 0, 1, 2, 3, 5}
PageSizeInputs == {-1, 0, 1, 2, 10}

(***************************************************************************)
(* Query.resolve_products_filtered                                         *)
(***************************************************************************)
\* name__icontains: sub occurs in name, ignoring case
IContains(name, sub) ==
    \E i \in 0..(Len(name) - Len(sub)) :
        \A k \in 1..Len(sub) : Lower(name[i + k]) = Lower(sub[k])

\* Python truthiness of an optional string / an optional integer
TruthyStr(o) == o # NULL /\ o[1] # <<>>
TruthyInt(o) == o # NULL /\ o[1] # 0

\* a ProductFilterInput is a mapping: it is falsy when it holds no key
TruthyFilters(o) == o # NULL /\ \E k \in DOMAIN o[1] : o[1][k] # NULL

\* lines 255-275: the chain of queryset.filter calls
ApplyFilters(queryset, filters) ==
    IF ~TruthyFilters(filters) THEN queryset
    ELSE
    LET f == filters[1]
        q1 == IF TruthyStr(f.name)
              THEN {p \in queryset : IContains(p.name, f.name[1])}
              ELSE queryset
        q2 == IF TruthyInt(f.category_id)
              THEN {p \in q1 : p.category_id = f.category_id[1]}
              ELSE q1
        q3 == IF f.is_active # NULL
              THEN {p \in q2 : p.is_active = f.is_active[1]}
              ELSE q2
        q4 == IF f.is_featured # NULL
              THEN {p \in q3 : p.is_featured = f.is_featured[1]}
              ELSE q3
        q5 == IF f.price_min # NULL
              THEN {p \in q4 : p.price >= f.price_min[1]}
              ELSE q4
        q6 == IF f.price_max # NULL
              THEN {p \in q5 : p.price <= f.price_max[1]}
              ELSE q5
        q7 == IF f.rating_min # NULL
              THEN {p \in q6 : p.rating >= f.rating_min[1]}
              ELSE q6
        q8 == IF f.has_stock # NULL
              THEN IF f.has_stock[1]
                   THEN {p \in q7 : p.stock_quantity > 0}
                   ELSE {p \in q7 : p.stock_quantity = 0}
              ELSE q7
    IN  q8

\* s <= t in the order of a text column (code points, shorter prefix first)
RECURSIVE StrLeq(_, _)
StrLeq(s, t) ==
    IF s = <<>> THEN TRUE
    ELSE IF t = <<>> THEN FALSE
    ELSE IF Ord(Head(s)) # Ord(Head(t)) THEN Ord(Head(s)) < Ord(Head(t))
    ELSE StrLeq(Tail(s), Tail(t))

\* p sorts no later than q under ORDER BY field (ascending)
KeyLeq(p, q, field) ==
    CASE field = "name" -> StrLeq(p.name, q.name)
      [] field = "price" -> p.price <= q.price
      [] field = "rating" -> p.rating <= q.rating
      [] field = "created_at" -> p.created_at <= q.created_at

\* p may come before q in the result of ORDER BY [-]field
MayPrecede(p, q, field, desc) ==
    IF desc THEN KeyLeq(q, p, field) ELSE KeyLeq(p, q, field)

\* queryset.order_by(f'{order}{field}'): the sequences of ids the database
\* may return.  ORDER BY names one column, so rows that agree on it come in
\* an order the database is free to choose, anew for every query.
RECURSIVE OrderBy(_, _, _)
OrderBy(queryset, field, desc) ==
    IF queryset = {} THEN {<<>>}
    ELSE UNION { {<<p.id>> \o rest :
                    rest \in OrderBy(queryset \ {p}, field, desc)} :
                 p \in {x \in queryset :
                          \A y \in queryset : MayPrecede(x, y, field, desc)} }

SortAllowList == {"name", "price", "rating", "created_at"}

\* lines 279-285: field_map.get(sort.field, 'created_at')
SortField(sort) ==
    IF sort = NULL THEN "created_at"
    ELSE IF sort[1].field \in SortAllowList THEN sort[1].field
    ELSE "created_at"

\* line 286 (and line 289, the default '-created_at')
SortDesc(sort) ==
    IF sort = NULL THEN TRUE ELSE sort[1].order = Some("desc")

\* the division without the round-up term
TotalPages_Floor(total_count, page_size) == FloorDiv(total_count, page_size)

\* line 293
TotalPages(total_count, page_size) ==
    FloorDiv(total_count + page_size - 1, page_size)

\* the offset counted in pages, not in rows
Offset_InPages(page, page_size) == page - 1

\* line 294
Offset(page, page_size) == (page - 1) * page_size

\* the comparison off by one
HasNext_Inclusive(page, total_pages) == page <= total_pages

\* line 304
HasNext(page, total_pages) == page < total_pages

\* line 305
HasPrevious(page) == page > 1

\* The answers the resolver may give to one request: a GraphQL error, or a
\* ProductPaginatedType.  view is the ordering the database produced for
\* the query that fetched the items.
ProductsFiltered(filters, sort, page, page_size) ==
    LET args == [filters |-> filters, sort |-> sort, page |-> page,
                 page_size |-> page_size]
        queryset == ApplyFilters(AllProducts, filters)
        total_count == Cardinality(queryset)
        Failure(e) == [query |-> "productsFiltered", args |-> args,
                       error |-> Some(e), result |-> NULL, view |-> <<>>]
    IN  IF page_size = 0 THEN {Failure("ZeroDivisionError")}
        ELSE
        LET total_pages == TotalPages(total_count, page_size)
            offset == Offset(page, page_size)
        IN  IF offset < 0 \/ offset + page_size < 0
            THEN {Failure("Negative indexing is not supported.")}
            ELSE { [query |-> "productsFiltered", args |-> args,
                    error |-> NULL,
                    result |-> Some(
                       [items |-> Slice(view, offset, offset + page_size),
                        total_count |-> total_count,
                        page |-> page,
                        page_size |-> page_size,
                        total_pages |-> total_pages,
                        has_next |-> HasNext(page, total_pages),
                        has_previous |-> HasPrevious(page)]),
                    view |-> view] :
                   view \in OrderBy(queryset, SortField(sort), SortDesc(sort)) }

(***************************************************************************)
(* Query.resolve_products_paginated                                        *)
(***************************************************************************)
\* line 329: f"cursor_{item.id}"
Cursor(id) == <<"cursor_", id>>

NameInputs == {NULL, Some(<<>>), Some(Str1("b"))}
CategoryInputs == {NULL, Some(0), Some(1)}
ActiveInputs == {NULL, Some(TRUE)}
FirstInputs == {-1, 0, 1, 2, 10}

\* the values of the after argument: absent, a cursor of a row that may
\* exist, a cursor of a row that never exists, and a token of another shape
AfterInputs ==
    {NULL, Some(Cursor(1)), Some(Cursor(2)), Some(Cursor(99)),
     Some(<<"garbage">>)}

\* lines 313-318
ApplyArgFilters(queryset, name, category_id, is_active) ==
    LET q1 == IF TruthyStr(name)
              THEN {p \in queryset : IContains(p.name, name[1])}
              ELSE queryset
        q2 == IF TruthyInt(category_id)
              THEN {p \in q1 : p.category_id = category_id[1]}
              ELSE q1
        q3 == IF is_active # NULL
              THEN {p \in q2 : p.is_active = is_active[1]}
              ELSE q2
    IN  q3

\* lines 326-332
Edges(items) == [i \in 1..Len(items) |-> [node |-> items[i], cursor |-> Cursor(items[i])]]

\* lines 334-339; the after argument is not read
MakePageInfo(edges, total_count, first, after) ==
    [has_next_page |-> total_count > first,
     has_previous_page |-> FALSE,
     start_cursor |-> IF edges # <<>> THEN Some(edges[1].cursor) ELSE NULL,
     end_cursor |-> IF edges # <<>> THEN Some(edges[Len(edges)].cursor) ELSE NULL]

\* The answers the resolver may give to one request: a GraphQL error, or a
\* ProductConnection.
ProductsPaginated(name, category_id, is_active, first, after) ==
    LET args == [name |-> name, category_id |-> category_id,
                 is_active |-> is_active, first |-> first, after |-> after]
        queryset == ApplyArgFilters(AllProducts, name, category_id, is_active)
        total_count == Cardinality(queryset)
    IN  IF first < 0
        THEN {[query |-> "productsPaginated", args |-> args,
               error |-> Some("Negative indexing is not supported."),
               result |-> NULL, view |-> <<>>]}
        ELSE { [query |-> "productsPaginated", args |-> args,
                error |-> NULL,
                result |-> Some(
                   LET edges == Edges(Slice(view, 0, first))
                   IN  [edges |-> edges,
                        page_info |-> MakePageInfo(edges, total_count, first, after),
                        total_count |-> total_count]),
                view |-> view] :
               view \in OrderBy(queryset, "created_at", TRUE) }

(***************************************************************************)
(* Aggregates.  A SQL aggregate over a column is computed from the         *)
(* sequence of the column's values; AVG is the exact quotient, kept as     *)
(* numerator and denominator.  Over no row AVG, MAX and MIN are NULL and   *)
(* COUNT is 0.                                                             *)
(***************************************************************************)
RECURSIVE Sum(_)
Sum(values) == IF values = <<>> THEN 0 ELSE values[1] + Sum(Tail(values))

Avg(values) ==
    IF values = <<>> THEN NULL
    ELSE Some([num |-> Sum(values), den |-> Len(values)])

Count(values) == Len(values)

Max(values) ==
    IF values = <<>> THEN NULL
    ELSE Some(CHOOSE v \in Range(values) : \A w \in Range(values) : w <= v)

\* SQL MIN (Min is the smaller of two numbers, above)
MinValue(values) ==
    IF values = <<>> THEN NULL
    ELSE Some(CHOOSE v \in Range(values) : \A w \in Range(values) : v <= w)

\* Python's truth value of the aggregate: None and a zero Decimal are falsy
TruthyAvg(avg) == avg # NULL /\ avg[1].num # 0

\* lines 361-365: "float(avg) if avg else 0"
AvgProductPrice ==
    LET avg == Avg([i \in 1..Len(products) |-> products[i].price])
    IN  [query |-> "avgProductPrice", args |-> <<>>, error |-> NULL,
         result |-> IF TruthyAvg(avg) THEN avg ELSE Some([num |-> 0, den |-> 1]),
         view |-> <<>>]

(***************************************************************************)
(* The state machine.                                                      *)
(***************************************************************************)
NoResponse == [query |-> "none"]
Idle == [mode |-> "idle"]

Init ==
    /\ products = <<>>
    /\ response = NoResponse
    /\ client = Idle

\* Product.objects.create(...): the insert fails (IntegrityError) when the
\* slug is taken
CreateProduct ==
    /\ client = Idle
    /\ response = NoResponse
    /\ Len(products) < MaxProducts
    /\ \E t \in Catalogue :
         /\ \A p \in AllProducts : p.slug # t.slug
         /\ products' = Append(products, NewProduct(t, Len(products) + 1))
    /\ UNCHANGED <<response, client, vars5, vars4, vars2>>

\* one productsFiltered query
ResolveProductsFiltered ==
    /\ client = Idle
    /\ response = NoResponse
    /\ \E filters \in FilterInputs, sort \in SortInputs,
          page \in PageInputs, page_size \in PageSizeInputs :
         response' \in ProductsFiltered(filters, sort, page, page_size)
    /\ UNCHANGED <<products, client, vars5, vars4, vars2>>

\* one productsPaginated query
ResolveProductsPaginated ==
    /\ client = Idle
    /\ response = NoResponse
    /\ \E name \in NameInputs, category_id \in CategoryInputs,
          is_active \in ActiveInputs, first \in FirstInputs,
          after \in AfterInputs :
         response' \in ProductsPaginated(name, category_id, is_active, first, after)
    /\ UNCHANGED <<products, client, vars5, vars4, vars2>>

\* the answer is returned to the caller
Respond ==
    /\ client = Idle
    /\ response # NoResponse
    /\ response' = NoResponse
    /\ UNCHANGED <<products, client, vars5, vars4, vars2>>

\* one avgProductPrice query
ResolveAvgProductPrice ==
    /\ client = Idle
    /\ response = NoResponse
    /\ response' = AvgProductPrice
    /\ UNCHANGED <<products, client, vars5, vars4, vars2>>

\* A client lists the products page by page: page 1 first, then the next
\* page as long as the page fetched is not the last (page < total_pages).
OffsetWalk(filters, sort, page_size, page, acc, r) ==
    [mode |-> "offset", filters |-> filters, sort |-> sort,
     page_size |-> page_size, page |-> page,
     acc |-> IF r.error = NULL THEN acc \o r.result[1].items ELSE acc,
     done |-> r.error # NULL \/ page >= r.result[1].total_pages]

StartOffsetWalk ==
    /\ client = Idle
    /\ response = NoResponse
    /\ \E filters \in FilterInputs, sort \in SortInputs,
          page_size \in {z \in PageSizeInputs : z >= 1} :
         \E r \in ProductsFiltered(filters, sort, 1, page_size) :
            /\ response' = r
            /\ client' = OffsetWalk(filters, sort, page_size, 1, <<>>, r)
    /\ UNCHANGED <<products, vars5, vars4, vars2>>

NextOffsetPage ==
    /\ client.mode = "offset"
    /\ ~client.done
    /\ \E r \in ProductsFiltered(client.filters, client.sort,
                                 client.page + 1, client.page_size) :
         /\ response' = r
         /\ client' = OffsetWalk(client.filters, client.sort, client.page_size,
                                 client.page + 1, client.acc, r)
    /\ UNCHANGED <<products, vars5, vars4, vars2>>

\* A client follows the cursors (TestCursorPagination): the first request
\* has no cursor, each later one passes the end_cursor of the page before.
CursorWalk(name, category_id, is_active, first, pages, r) ==
    LET conn == r.result[1]
        items == [i \in 1..Len(conn.edges) |-> conn.edges[i].node]
        all == Append(pages, [after |-> r.args.after, items |-> items])
    IN  [mode |-> "cursor", name |-> name, category_id |-> category_id,
         is_active |-> is_active, first |-> first,
         pages |-> all,
         end_cursor |-> conn.page_info.end_cursor,
         done |-> ~conn.page_info.has_next_page \/ Len(all) >= MaxFetches,
         complete |-> ~conn.page_info.has_next_page]

StartCursorWalk ==
    /\ client = Idle
    /\ response = NoResponse
    /\ \E name \in NameInputs, category_id \in CategoryInputs,
          is_active \in ActiveInputs, first \in {n \in FirstInputs : n >= 1} :
         \E r \in ProductsPaginated(name, category_id, is_active, first, NULL) :
            /\ response' = r
            /\ client' = CursorWalk(name, category_id, is_active, first, <<>>, r)
    /\ UNCHANGED <<products, vars5, vars4, vars2>>

NextCursorPage ==
    /\ client.mode = "cursor"
    /\ ~client.done
    /\ \E r \in ProductsPaginated(client.name, client.category_id,
                                  client.is_active, client.first,
                                  client.end_cursor) :
         /\ response' = r
         /\ client' = CursorWalk(client.name, client.category_id,
                                 client.is_active, client.first,
                                 client.pages, r)
    /\ UNCHANGED <<products, vars5, vars4, vars2>>

\* the walk is over: the client drops its state
EndWalk ==
    /\ client.mode \in {"offset", "cursor"}
    /\ client.done
    /\ client' = Idle
    /\ response' = NoResponse
    /\ UNCHANGED <<products, vars5, vars4, vars2>>

Next ==
    \/ CreateProduct
    \/ ResolveProductsFiltered
    \/ ResolveProductsPaginated
    \/ Respond
    \/ StartOffsetWalk
    \/ NextOffsetPage
    \/ StartCursorWalk
    \/ NextCursorPage
    \/ EndWalk

(***************************************************************************)
(* App 5: the Employee table behind Organization.get_employee_count_cached *)
(* and the Performance table behind performanceSummary.                    *)
(***************************************************************************)
MaxEmployees == 3     \* rows ever inserted into the Employee table
MaxMetrics == 3       \* rows the Performance table may hold

\* the organizations of the store
Organizations == {1, 2}

\* Employee(organization=..., is_active=...)
NewEmployee(organization_id, is_active) ==
    [organization_id |-> organization_id, is_active |-> is_active]

\* the ids of the stored employees
EmployeeIds == {i \in 1..Len(employees) : employees[i] # NULL}

\* self.employees: the employees whose organization is org
EmployeesOf(org) == {i \in EmployeeIds : employees[i][1].organization_id = org}

\* self.employees.filter(is_active=True).count()
ActiveCount(org) ==
    Cardinality({i \in EmployeesOf(org) : employees[i][1].is_active})

\* f'org_employees_{self.id}'
CacheKey(org) == <<"org_employees_", org>>

CacheKeys == {CacheKey(org) : org \in Organizations}

\* get_employee_count_cached without its cache.set
GetEmployeeCountCached_NoStore(org) ==
    LET count == cache[CacheKey(org)]
    IN  IF count = NULL
        THEN [count |-> ActiveCount(org), cache |-> cache]
        ELSE [count |-> count[1], cache |-> cache]

\* Organization.get_employee_count_cached: the value returned and the cache
\* the call leaves behind.  cache.get answers None (NULL) for a missing key.
GetEmployeeCountCached(org) ==
    LET cache_key == CacheKey(org)
        count == cache[cache_key]
    IN  IF count = NULL
        THEN [count |-> ActiveCount(org),
              cache |-> [cache EXCEPT ![cache_key] = Some(ActiveCount(org))]]
        ELSE [count |-> count[1], cache |-> cache]

\* the metric types rows are stored with, and the ones summaries ask for
MetricTypes == {"page_load", "api_response"}
MetricTypeInputs == {"page_load", "api_response", "cache_hit"}
MetricValues == {1, 3}

\* Performance.objects.filter(metric_type=metric_type).aggregate(...) and the
\* PerformanceMetricsType built from it
PerformanceSummary(metric_type) ==
    LET rows == SelectSeq(performances, LAMBDA m : m.metric_type = metric_type)
        values == [i \in 1..Len(rows) |-> rows[i].value]
        metrics == [avg_value |-> Avg(values), count |-> Count(values),
                    max_value |-> Max(values), min_value |-> MinValue(values)]
    IN  [query |-> "performanceSummary",
         args |-> [metric_type |-> metric_type],
         error |-> NULL,
         result |-> Some([metric_type |-> metric_type,
                          average_value |-> metrics.avg_value,
                          count |-> metrics.count,
                          max_value |-> metrics.max_value,
                          min_value |-> metrics.min_value])]

Init5 ==
    /\ employees = <<>>
    /\ cache = [k \in CacheKeys |-> NULL]
    /\ performances = <<>>
    /\ reply5 = NoResponse

\* Employee.objects.create(organization=org, ...)
CreateEmployee ==
    /\ reply5 = NoResponse
    /\ Len(employees) < MaxEmployees
    /\ \E org \in Organizations, is_active \in BOOLEAN :
         employees' = Append(employees, Some(NewEmployee(org, is_active)))
    /\ UNCHANGED <<cache, performances, reply5, varsT, varsL,
                 vars, vars4, vars2>>

\* employee.is_active = False; employee.save()
DeactivateEmployee ==
    /\ reply5 = NoResponse
    /\ \E i \in EmployeeIds :
         /\ employees[i][1].is_active
         /\ employees' = [employees EXCEPT ![i] =
                             Some([employees[i][1] EXCEPT !.is_active = FALSE])]
    /\ UNCHANGED <<cache, performances, reply5, varsT, varsL,
                 vars, vars4, vars2>>

\* employee.delete()
DeleteEmployee ==
    /\ reply5 = NoResponse
    /\ \E i \in EmployeeIds : employees' = [employees EXCEPT ![i] = NULL]
    /\ UNCHANGED <<cache, performances, reply5, varsT, varsL,
                 vars, vars4, vars2>>

\* org.get_employee_count_cached()
CallGetEmployeeCountCached ==
    /\ reply5 = NoResponse
    /\ \E org \in Organizations :
         LET r == GetEmployeeCountCached(org)
         IN  /\ cache' = r.cache
             /\ reply5' = [query |-> "get_employee_count_cached",
                           args |-> [id |-> org],
                           result |-> Some(r.count)]
    /\ UNCHANGED <<employees, performances, varsT, varsL,
                 vars, vars4, vars2>>

\* cache.delete(cache_key)
CacheDelete ==
    /\ reply5 = NoResponse
    /\ \E k \in CacheKeys :
         /\ cache[k] # NULL
         /\ cache' = [cache EXCEPT ![k] = NULL]
    /\ UNCHANGED <<employees, performances, reply5, varsT, varsL,
                 vars, vars4, vars2>>

\* cache.set(cache_key, count, 3600): the hour the entry is stored for has
\* passed and the cache drops it
CacheExpire ==
    /\ reply5 = NoResponse
    /\ \E k \in CacheKeys :
         /\ cache[k] # NULL
         /\ cache' = [cache EXCEPT ![k] = NULL]
    /\ UNCHANGED <<employees, performances, reply5, varsT, varsL,
                 vars, vars4, vars2>>

\* Performance.objects.create(metric_type=..., value=...)
CreatePerformance ==
    /\ reply5 = NoResponse
    /\ Len(performances) < MaxMetrics
    /\ \E metric_type \in MetricTypes, value \in MetricValues :
         performances' = Append(performances,
                                [id |-> Len(performances) + 1,
                                 metric_type |-> metric_type, value |-> value])
    /\ UNCHANGED <<employees, cache, reply5, varsT, varsL,
                 vars, vars4, vars2>>

\* one performanceSummary query
ResolvePerformanceSummary ==
    /\ reply5 = NoResponse
    /\ \E metric_type \in MetricTypeInputs :
         reply5' = PerformanceSummary(metric_type)
    /\ UNCHANGED <<employees, cache, performances, varsT, varsL,
                 vars, vars4, vars2>>

\* the answer is returned to the caller
Respond5 ==
    /\ reply5 # NoResponse
    /\ reply5' = NoResponse
    /\ UNCHANGED <<employees, cache, performances, varsT, varsL,
                 vars, vars4, vars2>>

\* the cache in front of the employee count
Next5 ==
    \/ CreateEmployee
    \/ DeactivateEmployee
    \/ DeleteEmployee
    \/ CallGetEmployeeCountCached
    \/ CacheDelete
    \/ CacheExpire
    \/ Respond5

\* the aggregate resolvers of app 3 and app 5
NextAgg ==
    \/ CreateProduct
    \/ ResolveAvgProductPrice
    \/ Respond
    \/ CreatePerformance
    \/ ResolvePerformanceSummary
    \/ Respond5

(***************************************************************************)
(* App 4: the User table, the activity log, and the register and login     *)
(* mutations.                                                              *)
(***************************************************************************)
MaxLogs == 3          \* rows the ActivityLog table may hold

\* the arguments the mutations are called with; two e-mail addresses differ
\* only in the case of the domain
UsernameInputs == {"", "alice", "bob"}
EmailInputs == {<<"a", "@", "b">>, <<"a", "@", "B">>, <<"c", "@", "b">>}
PasswordInputs == {"pw1", "pw2"}

\* the position of the last "@" of the address, 0 when there is none
LastAt(email) ==
    LET at == {i \in 1..Len(email) : email[i] = "@"}
    IN  IF at = {} THEN 0 ELSE CHOOSE i \in at : \A j \in at : j <= i

\* BaseUserManager.normalize_email, called by create_user: the domain part
\* (after the last "@") in lower case
NormalizeEmail(email) ==
    LET at == LastAt(email)
    IN  IF at = 0 THEN email
        ELSE [i \in 1..Len(email) |-> IF i > at THEN Lower(email[i]) ELSE email[i]]

\* django.contrib.auth.hashers: the stored form of a password
MakePassword(password) == <<"pbkdf2_sha256", password>>

\* check_password accepting every password
CheckPassword_Any(password, encoded) == encoded[1] = "pbkdf2_sha256"

\* check_password(password, user.password)
CheckPassword(password, encoded) == encoded = MakePassword(password)

\* generate_token(user_id): the signed payload (the times are left out)
GenerateToken(user_id) == <<"jwt", user_id>>

\* User.objects.filter(username=username): at most one row, username is unique
UsersNamed(username) == {u \in Range(users) : u.username = username}

\* User.objects.filter(email=email): the comparison is exact
UsersWithEmail(email) == {u \in Range(users) : u.email = email}

\* ActivityLog.objects.create(user=user, action='login', details=details)
NewActivityLog(user, details) ==
    [user_id |-> user.id, action |-> "login", details |-> details]

\* the answer of a mutation that failed
AuthFailure(mutation, args, message) ==
    [mutation |-> mutation, args |-> args, success |-> FALSE,
     message |-> message, user |-> NULL, token |-> NULL]

\* Register.mutate: the answer and the tables it leaves behind.
\* create_user raises ValueError for an empty username.
Register(input) ==
    LET user == [id |-> Len(users) + 1,
                 username |-> input.username,
                 email |-> NormalizeEmail(input.email),
                 password |-> MakePassword(input.password),
                 is_active |-> TRUE]
        unchanged(message) ==
            [reply |-> AuthFailure("register", input, message),
             users |-> users, activity_logs |-> activity_logs]
    IN  IF UsersNamed(input.username) # {}
        THEN unchanged("Username already exists")
        ELSE IF UsersWithEmail(input.email) # {}
        THEN unchanged("Email already exists")
        ELSE IF input.username = ""
        THEN unchanged("The given username must be set")
        ELSE [reply |-> [mutation |-> "register", args |-> input,
                         success |-> TRUE,
                         message |-> "User registered successfully",
                         user |-> Some(user.id),
                         token |-> Some(GenerateToken(user.id))],
              users |-> Append(users, user),
              activity_logs |->
                  Append(activity_logs, NewActivityLog(user, "User registration"))]

\* Login.mutate: the answer and the activity log it leaves behind
Login(username, password) ==
    LET args == [username |-> username, password |-> password]
        found == UsersNamed(username)
        unchanged(message) ==
            [reply |-> AuthFailure("login", args, message),
             activity_logs |-> activity_logs]
    IN  IF found = {} \/ \A u \in found : ~CheckPassword(password, u.password)
        THEN unchanged("Invalid username or password")
        ELSE LET user == CHOOSE u \in found : TRUE
             IN  IF ~user.is_active
                 THEN unchanged("User account is inactive")
                 ELSE [reply |-> [mutation |-> "login", args |-> args,
                                  success |-> TRUE,
                                  message |-> "Login successful",
                                  user |-> Some(user.id),
                                  token |-> Some(GenerateToken(user.id))],
                       activity_logs |->
                           Append(activity_logs,
                                  NewActivityLog(user, "User login successful"))]

Init4 ==
    /\ users = <<>>
    /\ activity_logs = <<>>
    /\ reply4 = NoResponse

\* one register mutation
CallRegister ==
    /\ reply4 = NoResponse
    /\ Len(activity_logs) < MaxLogs
    /\ \E username \in UsernameInputs, email \in EmailInputs,
          password \in PasswordInputs :
         LET r == Register([username |-> username, email |-> email,
                            password |-> password])
         IN  /\ reply4' = r.reply
             /\ users' = r.users
             /\ activity_logs' = r.activity_logs
    /\ UNCHANGED <<varsP,
                 vars, vars5, vars2>>

\* one login mutation
CallLogin ==
    /\ reply4 = NoResponse
    /\ Len(activity_logs) < MaxLogs
    /\ \E username \in UsernameInputs, password \in PasswordInputs :
         LET r == Login(username, password)
         IN  /\ reply4' = r.reply
             /\ activity_logs' = r.activity_logs
    /\ UNCHANGED <<users, varsP,
                 vars, vars5, vars2>>

\* user.is_active = False; user.save()
DeactivateUser ==
    /\ reply4 = NoResponse
    /\ \E i \in 1..Len(users) :
         /\ users[i].is_active
         /\ users' = [users EXCEPT ![i].is_active = FALSE]
    /\ UNCHANGED <<activity_logs, reply4, varsP,
                 vars, vars5, vars2>>

\* the answer is returned to the caller
Respond4 ==
    /\ reply4 # NoResponse
    /\ reply4' = NoResponse
    /\ UNCHANGED <<users, activity_logs, varsP,
                 vars, vars5, vars2>>

Next4 ==
    \/ CallRegister
    \/ CallLogin
    \/ DeactivateUser
    \/ Respond4

(***************************************************************************)
(* App 2: authors, publishers, books and reviews, and the mutations on     *)
(* them.  A row is kept at the index of its id; the row of a deleted       *)
(* record is NULL, and its id is never given out again.  Of an author the  *)
(* e-mail address is modelled, of a book its author, publisher, pages and  *)
(* ISBN, of a review its book, rating and text; the other fields are given *)
(* valid values.                                                           *)
(***************************************************************************)
MaxRows == 4          \* rows ever inserted into the four tables together

\* the arguments the mutations are called with (id 9 is never a stored row)
AuthorEmailInputs == {"ann@example.com", "bob@example.com"}
PublisherNameInputs == {"Penguin"}
IdInputs == {1, 2, 9}
PublisherIdInputs == {NULL, Some(1), Some(9)}
PagesInputs == {NULL, Some(-10), Some(5)}
IsbnInputs == {NULL, Some("111")}
RatingInputs == {0, 1, 5, 6}
ReviewTextInputs == {"", "Great!"}

BookInputs ==
    [author_id : IdInputs, publisher_id : PublisherIdInputs,
     pages : PagesInputs, isbn : IsbnInputs]

ReviewInputs ==
    [book_id : IdInputs, rating : RatingInputs, review_text : ReviewTextInputs]

\* the ids of the stored rows of a table
StoredIds(table) == {i \in 1..Len(table) : table[i] # NULL}

\* the rows inserted so far
Rows == Len(authors) + Len(publishers) + Len(books) + Len(reviews)

\* a text message, possibly built by an f-string
Msg(text) == <<text>>
MsgId(before, id, after) == <<before, id, after>>

\* the answer of a mutation: object is the id of the author, book or review
\* returned, NULL when the field is null
Answer(mutation, args, success, message, object) ==
    [mutation |-> mutation, args |-> args, success |-> success,
     message |-> message, object |-> object]

\* Book.clean, run by full_clean: "if self.pages and self.pages <= 0"
BookClean(book) ==
    IF book.pages # NULL /\ book.pages[1] # 0 /\ book.pages[1] <= 0
    THEN Some(Msg("Number of pages must be greater than 0."))
    ELSE NULL

\* Review.full_clean: review_text may not be blank; the rating is one of
\* RATING_CHOICES and, in Review.clean, within 1..5
ReviewFullClean(review) ==
    IF review.review_text = "" THEN Some(Msg("This field cannot be blank."))
    ELSE IF review.rating < 1 \/ review.rating > 5
    THEN Some(Msg("Rating must be between 1 and 5."))
    ELSE NULL

\* Review.objects.filter(book=book) answering no row
ReviewsOf_None(book_id) == {}

\* Review.objects.filter(book=book): ids of the reviews of the book
ReviewsOf(book_id) == {i \in StoredIds(reviews) : reviews[i][1].book_id = book_id}

\* Book.objects.filter(isbn=isbn)
BooksWithIsbn(isbn) == {i \in StoredIds(books) : books[i][1].isbn = Some(isbn)}

\* the books of an author (Author.books)
BooksOf(author_id) == {i \in StoredIds(books) : books[i][1].author_id = author_id}

\* instance.delete(): the rows whose id is in gone leave the table
Delete(table, gone) ==
    [i \in 1..Len(table) |-> IF i \in gone THEN NULL ELSE table[i]]

\* on_delete=CASCADE keeping the dependent rows
Cascade_Keep(table, gone) == table

\* on_delete=CASCADE: the dependent rows are deleted with the row they
\* refer to
Cascade(table, gone) == Delete(table, gone)

\* CreateAuthor.mutate
CreateAuthor(input) ==
    IF \E i \in StoredIds(authors) : authors[i][1].email = input.email
    THEN [reply |-> Answer("createAuthor", input, FALSE,
                           Msg("Email already exists"), NULL),
          authors |-> authors]
    ELSE [reply |-> Answer("createAuthor", input, TRUE,
                           Msg("Author created successfully"),
                           Some(Len(authors) + 1)),
          authors |-> Append(authors, Some([email |-> input.email]))]

\* UpdateAuthor.mutate
UpdateAuthor(id, input) ==
    LET args == [id |-> id, input |-> input]
    IN  IF id \notin StoredIds(authors)
        THEN [reply |-> Answer("updateAuthor", args, FALSE,
                               MsgId("Author with ID ", id, " not found"), NULL),
              authors |-> authors]
        ELSE IF /\ input.email # authors[id][1].email
                /\ \E i \in StoredIds(authors) : authors[i][1].email = input.email
        THEN [reply |-> Answer("updateAuthor", args, FALSE,
                               Msg("Email already exists"), NULL),
              authors |-> authors]
        ELSE [reply |-> Answer("updateAuthor", args, TRUE,
                               Msg("Author updated successfully"), Some(id)),
              authors |-> [authors EXCEPT ![id] = Some([email |-> input.email])]]

\* DeleteAuthor.mutate: Book.author and Review.book are on_delete=CASCADE
DeleteAuthor(id) ==
    LET args == [id |-> id]
        gone_books == BooksOf(id)
        gone_reviews == UNION {ReviewsOf(b) : b \in gone_books}
    IN  IF id \notin StoredIds(authors)
        THEN [reply |-> Answer("deleteAuthor", args, FALSE,
                               MsgId("Author with ID ", id, " not found"), NULL),
              authors |-> authors, books |-> books, reviews |-> reviews]
        ELSE [reply |-> Answer("deleteAuthor", args, TRUE,
                               Msg("Author deleted successfully"), NULL),
              authors |-> Delete(authors, {id}),
              books |-> Cascade(books, gone_books),
              reviews |-> Cascade(reviews, gone_reviews)]

\* CreatePublisher.mutate
CreatePublisher(input) ==
    IF \E i \in StoredIds(publishers) : publishers[i][1].name = input.name
    THEN [reply |-> Answer("createPublisher", input, FALSE,
                           Msg("Publisher name already exists"), NULL),
          publishers |-> publishers]
    ELSE [reply |-> Answer("createPublisher", input, TRUE,
                           Msg("Publisher created successfully"),
                           Some(Len(publishers) + 1)),
          publishers |-> Append(publishers, Some([name |-> input.name]))]

\* "if input.isbn": a non-empty string
TruthyIsbn(isbn) == isbn # NULL /\ isbn[1] # ""

\* CreateBook.mutate.  Book.objects.create inserts the row; full_clean runs
\* on the row already inserted.
CreateBook(input) ==
    LET fail(message, table) ==
            [reply |-> Answer("createBook", input, FALSE, message, NULL),
             books |-> table]
        book == [author_id |-> input.author_id,
                 publisher_id |-> IF TruthyInt(input.publisher_id)
                                  THEN input.publisher_id ELSE NULL,
                 pages |-> input.pages,
                 isbn |-> input.isbn]
        created == Append(books, Some(book))
    IN  IF input.author_id \notin StoredIds(authors)
        THEN fail(MsgId("Author with ID ", input.author_id, " not found"), books)
        ELSE IF /\ TruthyInt(input.publisher_id)
                /\ input.publisher_id[1] \notin StoredIds(publishers)
        THEN fail(MsgId("Publisher with ID ", input.publisher_id[1], " not found"),
                  books)
        ELSE IF TruthyIsbn(input.isbn) /\ BooksWithIsbn(input.isbn[1]) # {}
        THEN fail(Msg("ISBN already exists"), books)
        ELSE IF BookClean(book) # NULL
        THEN fail(BookClean(book)[1], created)
        ELSE [reply |-> Answer("createBook", input, TRUE,
                               Msg("Book created successfully"),
                               Some(Len(created))),
              books |-> created]

\* UpdateBook.mutate: the fields are set on the instance, full_clean runs,
\* and only then is the row saved
UpdateBook(id, input) ==
    LET args == [id |-> id, input |-> input]
        fail(message) ==
            [reply |-> Answer("updateBook", args, FALSE, message, NULL),
             books |-> books]
    IN  IF id \notin StoredIds(books)
        THEN fail(MsgId("Book with ID ", id, " not found"))
        ELSE IF input.author_id \notin StoredIds(authors)
        THEN fail(MsgId("Author with ID ", input.author_id, " not found"))
        ELSE IF /\ TruthyInt(input.publisher_id)
                /\ input.publisher_id[1] \notin StoredIds(publishers)
        THEN fail(MsgId("Publisher with ID ", input.publisher_id[1], " not found"))
        ELSE IF /\ TruthyIsbn(input.isbn)
                /\ input.isbn # books[id][1].isbn
                /\ BooksWithIsbn(input.isbn[1]) # {}
        THEN fail(Msg("ISBN already exists"))
        ELSE LET book == [author_id |-> input.author_id,
                          publisher_id |-> IF TruthyInt(input.publisher_id)
                                           THEN input.publisher_id ELSE NULL,
                          pages |-> IF TruthyInt(input.pages)
                                    THEN input.pages ELSE books[id][1].pages,
                          isbn |-> IF TruthyIsbn(input.isbn)
                                   THEN input.isbn ELSE books[id][1].isbn]
             IN  IF BookClean(book) # NULL
                 THEN fail(BookClean(book)[1])
                 ELSE [reply |-> Answer("updateBook", args, TRUE,
                                        Msg("Book updated successfully"), Some(id)),
                       books |-> [books EXCEPT ![id] = Some(book)]]

\* DeleteBook.mutate: Review.book is on_delete=CASCADE
DeleteBook(id) ==
    LET args == [id |-> id]
    IN  IF id \notin StoredIds(books)
        THEN [reply |-> Answer("deleteBook", args, FALSE,
                               MsgId("Book with ID ", id, " not found"), NULL),
              books |-> books, reviews |-> reviews]
        ELSE [reply |-> Answer("deleteBook", args, TRUE,
                               Msg("Book deleted successfully"), NULL),
              books |-> Delete(books, {id}),
              reviews |-> Cascade(reviews, ReviewsOf(id))]

\* the rating check of CreateReview and UpdateReview, refusing only a
\* rating below 1
InvalidRating_Low(rating) == rating < 1

\* "if input.rating < 1 or input.rating > 5"
InvalidRating(rating) == rating < 1 \/ rating > 5

\* CreateReview.mutate.  Review.objects.create inserts the row; full_clean
\* runs on the row already inserted.
CreateReview(input) ==
    LET fail(message, table) ==
            [reply |-> Answer("createReview", input, FALSE, message, NULL),
             reviews |-> table]
        review == [book_id |-> input.book_id, rating |-> input.rating,
                   review_text |-> input.review_text]
        created == Append(reviews, Some(review))
    IN  IF input.book_id \notin StoredIds(books)
        THEN fail(MsgId("Book with ID ", input.book_id, " not found"), reviews)
        ELSE IF ReviewsOf(input.book_id) # {}
        THEN fail(Msg("This book already has a review"), reviews)
        ELSE IF InvalidRating(input.rating)
        THEN fail(Msg("Rating must be between 1 and 5"), reviews)
        ELSE IF ReviewFullClean(review) # NULL
        THEN fail(ReviewFullClean(review)[1], created)
        ELSE [reply |-> Answer("createReview", input, TRUE,
                               Msg("Review created successfully"),
                               Some(Len(created))),
              reviews |-> created]

\* UpdateReview.mutate: input.book_id is not read
UpdateReview(id, input) ==
    LET args == [id |-> id, input |-> input]
        fail(message) ==
            [reply |-> Answer("updateReview", args, FALSE, message, NULL),
             reviews |-> reviews]
    IN  IF id \notin StoredIds(reviews)
        THEN fail(MsgId("Review with ID ", id, " not found"))
        ELSE IF InvalidRating(input.rating)
        THEN fail(Msg("Rating must be between 1 and 5"))
        ELSE LET review == [book_id |-> reviews[id][1].book_id,
                            rating |-> input.rating,
                            review_text |-> input.review_text]
             IN  IF ReviewFullClean(review) # NULL
                 THEN fail(ReviewFullClean(review)[1])
                 ELSE [reply |-> Answer("updateReview", args, TRUE,
                                        Msg("Review updated successfully"),
                                        Some(id)),
                       reviews |-> [reviews EXCEPT ![id] = Some(review)]]

\* DeleteReview.mutate
DeleteReview(id) ==
    LET args == [id |-> id]
    IN  IF id \notin StoredIds(reviews)
        THEN [reply |-> Answer("deleteReview", args, FALSE,
                               MsgId("Review with ID ", id, " not found"), NULL),
              reviews |-> reviews]
        ELSE [reply |-> Answer("deleteReview", args, TRUE,
                               Msg("Review deleted successfully"), NULL),
              reviews |-> Delete(reviews, {id})]

Init2 ==
    /\ authors = <<>>
    /\ publishers = <<>>
    /\ books = <<>>
    /\ reviews = <<>>
    /\ reply2 = NoResponse

CallCreateAuthor ==
    /\ reply2 = NoResponse
    /\ Rows < MaxRows
    /\ \E email \in AuthorEmailInputs :
         LET r == CreateAuthor([email |-> email])
         IN  reply2' = r.reply /\ authors' = r.authors
    /\ UNCHANGED <<publishers, books, reviews, vars, vars5, vars4>>

CallUpdateAuthor ==
    /\ reply2 = NoResponse
    /\ \E id \in IdInputs, email \in AuthorEmailInputs :
         LET r == UpdateAuthor(id, [email |-> email])
         IN  reply2' = r.reply /\ authors' = r.authors
    /\ UNCHANGED <<publishers, books, reviews, vars, vars5, vars4>>

CallDeleteAuthor ==
    /\ reply2 = NoResponse
    /\ \E id \in IdInputs :
         LET r == DeleteAuthor(id)
         IN  /\ reply2' = r.reply
             /\ authors' = r.authors
             /\ books' = r.books
             /\ reviews' = r.reviews
    /\ UNCHANGED <<publishers, vars, vars5, vars4>>

CallCreatePublisher ==
    /\ reply2 = NoResponse
    /\ Rows < MaxRows
    /\ \E name \in PublisherNameInputs :
         LET r == CreatePublisher([name |-> name])
         IN  reply2' = r.reply /\ publishers' = r.publishers
    /\ UNCHANGED <<authors, books, reviews, vars, vars5, vars4>>

CallCreateBook ==
    /\ reply2 = NoResponse
    /\ Rows < MaxRows
    /\ \E input \in BookInputs :
         LET r == CreateBook(input)
         IN  reply2' = r.reply /\ books' = r.books
    /\ UNCHANGED <<authors, publishers, reviews, vars, vars5, vars4>>

CallUpdateBook ==
    /\ reply2 = NoResponse
    /\ \E id \in IdInputs, input \in BookInputs :
         LET r == UpdateBook(id, input)
         IN  reply2' = r.reply /\ books' = r.books
    /\ UNCHANGED <<authors, publishers, reviews, vars, vars5, vars4>>

CallDeleteBook ==
    /\ reply2 = NoResponse
    /\ \E id \in IdInputs :
         LET r == DeleteBook(id)
         IN  reply2' = r.reply /\ books' = r.books /\ reviews' = r.reviews
    /\ UNCHANGED <<authors, publishers, vars, vars5, vars4>>

CallCreateReview ==
    /\ reply2 = NoResponse
    /\ Rows < MaxRows
    /\ \E input \in ReviewInputs :
         LET r == CreateReview(input)
         IN  reply2' = r.reply /\ reviews' = r.reviews
    /\ UNCHANGED <<authors, publishers, books, vars, vars5, vars4>>

CallUpdateReview ==
    /\ reply2 = NoResponse
    /\ \E id \in IdInputs, input \in ReviewInputs :
         LET r == UpdateReview(id, input)
         IN  reply2' = r.reply /\ reviews' = r.reviews
    /\ UNCHANGED <<authors, publishers, books, vars, vars5, vars4>>

CallDeleteReview ==
    /\ reply2 = NoResponse
    /\ \E id \in IdInputs :
         LET r == DeleteReview(id)
         IN  reply2' = r.reply /\ reviews' = r.reviews
    /\ UNCHANGED <<authors, publishers, books, vars, vars5, vars4>>

\* the answer is returned to the caller
Respond2 ==
    /\ reply2 # NoResponse
    /\ reply2' = NoResponse
    /\ UNCHANGED <<authors, publishers, books, reviews, vars, vars5, vars4>>

Next2 ==
    \/ CallCreateAuthor
    \/ CallUpdateAuthor
    \/ CallDeleteAuthor
    \/ CallCreatePublisher
    \/ CallCreateBook
    \/ CallUpdateBook
    \/ CallDeleteBook
    \/ CallCreateReview
    \/ CallUpdateReview
    \/ CallDeleteReview
    \/ Respond2

(***************************************************************************)
(* Book.full_clean() called on a Book object outside the mutations, as the *)
(* model tests do: the outcome is the error raised by Book.clean(), or     *)
(* none.  The other fields of the book are valid.                          *)
(***************************************************************************)
PagesValues == {NULL} \cup {Some(n) : n \in -3..3}

BookObjects ==
    [author_id : IdInputs, publisher_id : PublisherIdInputs,
     pages : PagesValues, isbn : IsbnInputs]

CallBookFullClean ==
    /\ reply2 = NoResponse
    /\ \E book \in BookObjects :
         reply2' = [mutation |-> "Book.full_clean", args |-> book,
                    errors |-> BookClean(book)]
    /\ UNCHANGED <<authors, publishers, books, reviews, vars, vars5, vars4>>

NextClean ==
    \/ CallBookFullClean
    \/ Respond2

(***************************************************************************)
(* App 5: the TestResult table behind the testSummary query.               *)
(***************************************************************************)
MaxTestResults == 3   \* rows the TestResult table may hold

\* TestResult.TEST_STATUS
TestStatuses == {"passed", "failed", "skipped"}

\* TestResult.execution_time, in tenths of a second
ExecutionTimes == {1, 2}

StatusCount_All(status) == Len(test_results)

\* Count('id', filter=Q(status=status))
StatusCount(status) ==
    Cardinality({i \in DOMAIN test_results : test_results[i].status = status})

\* Sum('execution_time'): None over no rows
TotalTime ==
    IF test_results = <<>> THEN NULL
    ELSE Some(Sum([i \in DOMAIN test_results |-> test_results[i].execution_time]))

\* Query.resolve_test_summary; pass_rate is the fraction num / den
TestSummary ==
    LET results == [total |-> Count(test_results),
                    passed |-> StatusCount("passed"),
                    failed |-> StatusCount("failed"),
                    skipped |-> StatusCount("skipped"),
                    total_time |-> TotalTime]
        total == IF results.total # 0 THEN results.total ELSE 1
        pass_rate == IF total > 0
                     THEN [num |-> results.passed * 100, den |-> total]
                     ELSE [num |-> 0, den |-> 1]
    IN  [query |-> "testSummary",
         total_tests |-> results.total,
         passed |-> results.passed,
         failed |-> results.failed,
         skipped |-> results.skipped,
         pass_rate |-> pass_rate,
         total_execution_time |-> IF TruthyInt(results.total_time)
                                  THEN results.total_time[1] ELSE 0]

InitT == test_results = <<>>

\* TestResult.objects.create(test_name=..., status=status, execution_time=...)
CreateTestResult ==
    /\ reply5 = NoResponse
    /\ Len(test_results) < MaxTestResults
    /\ \E status \in TestStatuses, execution_time \in ExecutionTimes :
         test_results' = Append(test_results,
                                [status |-> status,
                                 execution_time |-> execution_time])
    /\ UNCHANGED <<employees, cache, performances, reply5, varsL,
                   vars, vars4, vars2>>

\* TestResult.objects.all().delete()
DeleteTestResults ==
    /\ reply5 = NoResponse
    /\ test_results # <<>>
    /\ test_results' = <<>>
    /\ UNCHANGED <<employees, cache, performances, reply5, varsL,
                   vars, vars4, vars2>>

\* one testSummary query
ResolveTestSummary ==
    /\ reply5 = NoResponse
    /\ reply5' = TestSummary
    /\ UNCHANGED <<employees, cache, performances, varsT, varsL,
                   vars, vars4, vars2>>

NextTests ==
    \/ CreateTestResult
    \/ DeleteTestResults
    \/ ResolveTestSummary
    \/ Respond5

(***************************************************************************)
(* App 5: the DataLoader.  The loader object has a queue of (key, promise) *)
(* pairs and a cache from key to result; batch_fn is the function the      *)
(* loader was built with, and each call of it may behave differently.      *)
(***************************************************************************)
MaxLoads == 3         \* promises DataLoader.load hands out
MaxBatchCalls == 2    \* calls of batch_fn

\* the keys callers load
Keys == {1, 2}

\* what batch_fn does in one call: it returns one result per key in key
\* order, one result too few, one result too many, or it raises
BatchBehaviours == {"exact", "short", "long", "raises"}

\* the result batch_fn has for a key
Fetch(key) == key * 10

\* the states of a promise: Promise(lambda resolve, reject: None) is pending
Pending == <<"pending">>
Fulfilled(value) == <<"fulfilled", value>>

\* Promise.resolve(value): the class-level constructor of a promise that is
\* already fulfilled with value
PromiseResolve(value) == Fulfilled(value)

\* promise.resolve(result) in dispatch: resolve is the same class-level
\* constructor, so the call through an instance builds a new fulfilled
\* promise, which dispatch discards, and leaves the receiver as it was
ResolveOn(promise, result) == promise

\* batch_fn(keys)
BatchFn(behaviour, keys) ==
    LET exact == [i \in DOMAIN keys |-> Fetch(keys[i])]
    IN  IF behaviour = "short" THEN SubSeq(exact, 1, Len(exact) - 1)
        ELSE IF behaviour = "long" THEN Append(exact, 0)
        ELSE exact

\* self.cache after the loop has stored the first n results: a later
\* request of the same key overwrites an earlier one
CacheAfter(cache_, queue, results, n) ==
    [key \in Keys |->
        LET at == {i \in 1..n : queue[i].key = key}
        IN  IF at = {} THEN cache_[key]
            ELSE Some(results[CHOOSE i \in at : \A j \in at : j <= i])]

\* DataLoader.__init__
InitL ==
    /\ loader = [queue |-> <<>>, cache |-> [key \in Keys |-> NULL]]
    /\ promises = <<>>
    /\ batch_calls = <<>>
    /\ loader_op = [op |-> "none"]

\* DataLoader.load(key)
Load ==
    /\ Len(promises) < MaxLoads
    /\ \E key \in Keys :
         LET promise == Len(promises) + 1
         IN  /\ IF loader.cache[key] # NULL
                THEN /\ promises' = Append(promises,
                                           PromiseResolve(loader.cache[key][1]))
                     /\ loader' = loader
                ELSE /\ promises' = Append(promises, Pending)
                     /\ loader' = [loader EXCEPT !.queue =
                                      Append(@, [key |-> key, promise |-> promise])]
             /\ loader_op' = [op |-> "load", key |-> key, promise |-> promise]
    /\ UNCHANGED <<batch_calls, employees, cache, performances, reply5, varsT,
                   vars, vars4, vars2>>

\* DataLoader.dispatch()
Dispatch ==
    IF loader.queue = <<>>
    THEN /\ loader_op' = [op |-> "dispatch", batch_fn |-> "not called"]
         /\ UNCHANGED <<loader, promises, batch_calls, employees, cache,
                        performances, reply5, varsT, vars, vars4, vars2>>
    ELSE /\ Len(batch_calls) < MaxBatchCalls
         /\ \E behaviour \in BatchBehaviours :
              LET keys == [i \in DOMAIN loader.queue |-> loader.queue[i].key]
                  results == BatchFn(behaviour, keys)
                  n == Min(Len(loader.queue), Len(results))
              IN  /\ batch_calls' = Append(batch_calls, keys)
                  /\ loader_op' = [op |-> "dispatch", batch_fn |-> behaviour]
                  /\ IF behaviour = "raises"
                     THEN UNCHANGED <<loader, promises>>
                     ELSE /\ loader' = [queue |-> <<>>,
                                        cache |-> CacheAfter(loader.cache,
                                                             loader.queue,
                                                             results, n)]
                          /\ promises' =
                               [p \in DOMAIN promises |->
                                  IF \E i \in 1..n : loader.queue[i].promise = p
                                  THEN ResolveOn(promises[p],
                                         results[CHOOSE i \in 1..n :
                                                   loader.queue[i].promise = p])
                                  ELSE promises[p]]
         /\ UNCHANGED <<employees, cache, performances, reply5, varsT,
                        vars, vars4, vars2>>

NextLoader ==
    \/ Load
    \/ Dispatch

(***************************************************************************)
(* App 4: the mutations behind require_auth over users, profiles, posts,   *)
(* comments and the activity log.  Of a post the model keeps the author,   *)
(* the title and can_comment (content and status are written next to the   *)
(* title); of a comment the post, the author and is_approved; of a profile *)
(* the role and the bio (first_name and last_name are written next to the  *)
(* bio).  A user beyond the end of profiles has the profile the post_save  *)
(* signal made: role 'user', empty bio.                                    *)
(***************************************************************************)
MaxPosts == 1         \* rows ever inserted into the Post table
MaxComments == 2      \* rows ever inserted into the Comment table
MaxPostLogs == 2      \* rows the mutations on posts add to the activity log

\* UserProfile.ROLE_CHOICES
Roles == {"admin", "moderator", "user"}

\* the fixture users normal_user, moderator_user and admin_user
FixtureUsers ==
    <<[username |-> "normaluser", email |-> <<"user", "@", "example.com">>,
       role |-> "user"],
      [username |-> "moderator", email |-> <<"mod", "@", "example.com">>,
       role |-> "moderator"],
      [username |-> "admin", email |-> <<"admin", "@", "example.com">>,
       role |-> "admin"]>>

\* UserProfile(user=instance): the defaults of the model
DefaultProfile == [role |-> "user", bio |-> ""]

\* user.profile
ProfileOf(user_id) ==
    IF user_id \in DOMAIN profiles THEN profiles[user_id] ELSE DefaultProfile

\* a token whose 'exp' has passed, and a string that is no token
ExpiredToken(user_id) == <<"jwt", user_id, "expired">>
GarbageToken == <<"garbage">>

\* decode_token without the check of 'exp'
DecodeToken_NoExpiry(token) ==
    IF token[1] # "jwt" THEN NULL ELSE Some([user_id |-> token[2]])

\* decode_token: the payload, or None for an expired or an invalid token
DecodeToken(token) ==
    IF token[1] # "jwt" THEN NULL
    ELSE IF Len(token) = 3 THEN NULL
    ELSE Some([user_id |-> token[2]])

\* the Authorization header of a request: absent, or a scheme and a token
Header(scheme, token) == Some([scheme |-> scheme, token |-> token])

TokenUserIds == {1, 2, 3, 9}

AuthHeaderInputs ==
    {NULL, Header("Token", GenerateToken(1)), Header("Bearer", GarbageToken),
     Header("Bearer", ExpiredToken(1))}
        \cup {Header("Bearer", GenerateToken(user_id)) : user_id \in TokenUserIds}

BioInputs == {NULL, Some("hi")}
CanCommentInputs == {NULL, Some(FALSE)}
CreatePostInputs == [title : {"Test Post"}, can_comment : CanCommentInputs]
UpdatePostInputs == [title : {"Updated"}, can_comment : CanCommentInputs]
ChangePasswordInputs ==
    [old_password : {"password123"}, new_password : {"newpass"}]

\* the ids callers ask for: the ids given out so far and one never given out
PostIdInputs == (1..MaxPosts) \cup {9}
CommentIdInputs == (1..MaxComments) \cup {9}

\* the tables a mutation reads and writes
Stored ==
    [users |-> users, profiles |-> profiles, posts |-> posts,
     comments |-> comments, activity_logs |-> activity_logs]

\* the answer of a mutation or a query: error is the exception raised out
\* of the resolver, if any
Answer4(mutation, header, args, error, success, message, object) ==
    [mutation |-> mutation, header |-> header, args |-> args, error |-> error,
     success |-> success, message |-> message, object |-> object]

Raised(mutation, header, args, message) ==
    [reply |-> Answer4(mutation, header, args, Some(message), FALSE, "", NULL),
     stored |-> Stored]

Returned(mutation, header, args, success, message, object, stored) ==
    [reply |-> Answer4(mutation, header, args, NULL, success, message, object),
     stored |-> stored]

\* ActivityLog.objects.create(user=user, action=action, details=details)
ActivityLogOf(user_id, action, details) ==
    [user_id |-> user_id, action |-> action, details |-> details]

\* require_auth(func): the exception the wrapper raises, or none and the
\* user it sets as request.user before it calls func
RequireAuth(header) ==
    LET raise(message) == [error |-> Some(message), user_id |-> 0]
    IN  IF header = NULL \/ header[1].scheme # "Bearer"
        THEN raise("Authentication credentials not provided")
        ELSE LET payload == DecodeToken(header[1].token)
             IN  IF payload = NULL
                 THEN raise("Invalid or expired token")
                 ELSE IF payload[1].user_id \notin DOMAIN users
                 THEN raise("User not found")
                 ELSE [error |-> NULL, user_id |-> payload[1].user_id]

HasRole_Any(user_id, allowed_roles) == TRUE

\* user_role in allowed_roles, for user_role = request.user.profile.role
HasRole(user_id, allowed_roles) == ProfileOf(user_id).role \in allowed_roles

\* require_role(*allowed_roles)(func), under require_auth: the exception
\* the wrapper raises, or none
RequireRole(allowed_roles, user_id) ==
    IF ~HasRole(user_id, allowed_roles)
    THEN Some("Permission denied. Required roles: admin, moderator")
    ELSE NULL

\* a mutation under require_auth: the wrapper raises, or func runs
Authenticated(mutation, header, args, func(_)) ==
    IF RequireAuth(header).error # NULL
    THEN Raised(mutation, header, args, RequireAuth(header).error[1])
    ELSE func(RequireAuth(header).user_id)

\* UpdateProfile.mutate
UpdateProfile(header, input) ==
    LET body(user_id) ==
            Returned("updateProfile", header, input, TRUE,
                     "Profile updated successfully", Some(user_id),
                     [Stored EXCEPT
                        !.profiles =
                            IF input.bio # NULL /\ input.bio[1] # ""
                            THEN [@ EXCEPT ![user_id].bio = input.bio[1]]
                            ELSE @,
                        !.activity_logs =
                            Append(@, ActivityLogOf(user_id, "update_profile",
                                                    "Profile updated"))])
    IN  Authenticated("updateProfile", header, input, body)

\* ChangePassword.mutate
ChangePassword(header, input) ==
    LET body(user_id) ==
            IF ~CheckPassword(input.old_password, users[user_id].password)
            THEN Returned("changePassword", header, input, FALSE,
                          "Old password is incorrect", NULL, Stored)
            ELSE Returned("changePassword", header, input, TRUE,
                          "Password changed successfully", NULL,
                          [Stored EXCEPT
                             !.users[user_id].password =
                                 MakePassword(input.new_password),
                             !.activity_logs =
                                 Append(@, ActivityLogOf(user_id, "change_password",
                                                         "Password changed"))])
    IN  Authenticated("changePassword", header, input, body)

\* CreatePost.mutate
CreatePost(header, input) ==
    LET body(user_id) ==
            LET post == [author |-> user_id, title |-> input.title,
                         can_comment |-> IF input.can_comment # NULL
                                         THEN input.can_comment[1] ELSE TRUE]
            IN  Returned("createPost", header, input, TRUE,
                         "Post created successfully", Some(Len(posts) + 1),
                         [Stored EXCEPT
                            !.posts = Append(@, Some(post)),
                            !.activity_logs =
                                Append(@, ActivityLogOf(user_id, "create_post",
                                                        "Created post"))])
    IN  Authenticated("createPost", header, input, body)

UpdatePermitted_Owner(post, user_id) == post.author = user_id

\* the permission check of UpdatePost.mutate, negated
UpdatePermitted(post, user_id) ==
    ~(post.author # user_id /\ ProfileOf(user_id).role \notin {"admin", "moderator"})

DeletePermitted_Moderator(post, user_id) ==
    ~(post.author # user_id /\ ProfileOf(user_id).role \notin {"admin", "moderator"})

\* the permission check of DeletePost.mutate, negated
DeletePermitted(post, user_id) ==
    ~(post.author # user_id /\ ProfileOf(user_id).role # "admin")

\* UpdatePost.mutate
UpdatePost(header, id, input) ==
    LET args == [id |-> id, input |-> input]
        body(user_id) ==
            IF id \notin StoredIds(posts)
            THEN Returned("updatePost", header, args, FALSE, "Post not found",
                          NULL, Stored)
            ELSE IF ~UpdatePermitted(posts[id][1], user_id)
            THEN Returned("updatePost", header, args, FALSE,
                          "You don't have permission to update this post",
                          NULL, Stored)
            ELSE LET post == [author |-> posts[id][1].author,
                              title |-> input.title,
                              can_comment |-> IF input.can_comment # NULL
                                              THEN input.can_comment[1]
                                              ELSE posts[id][1].can_comment]
                 IN  Returned("updatePost", header, args, TRUE,
                              "Post updated successfully", Some(id),
                              [Stored EXCEPT
                                 !.posts[id] = Some(post),
                                 !.activity_logs =
                                     Append(@, ActivityLogOf(user_id, "create_post",
                                                             "Updated post"))])
    IN  Authenticated("updatePost", header, args, body)

\* the comments of a post, approved or not
CommentsOf(post_id) ==
    {i \in StoredIds(comments) : comments[i][1].post = post_id}

\* DeletePost.mutate: Comment.post is on_delete=CASCADE
DeletePost(header, id) ==
    LET args == [id |-> id]
        body(user_id) ==
            IF id \notin StoredIds(posts)
            THEN Returned("deletePost", header, args, FALSE, "Post not found",
                          NULL, Stored)
            ELSE IF ~DeletePermitted(posts[id][1], user_id)
            THEN Returned("deletePost", header, args, FALSE,
                          "You don't have permission to delete this post",
                          NULL, Stored)
            ELSE Returned("deletePost", header, args, TRUE,
                          "Post deleted successfully", NULL,
                          [Stored EXCEPT
                             !.posts = Delete(@, {id}),
                             !.comments = Cascade(@, CommentsOf(id)),
                             !.activity_logs =
                                 Append(@, ActivityLogOf(user_id, "delete_post",
                                                         "Deleted post"))])
    IN  Authenticated("deletePost", header, args, body)

AutoApproved_All(user_id) == TRUE

\* is_approved=user.profile.role in ['admin', 'moderator']
AutoApproved(user_id) == ProfileOf(user_id).role \in {"admin", "moderator"}

\* CreateComment.mutate
CreateComment(header, input) ==
    LET body(user_id) ==
            IF input.post_id \notin StoredIds(posts)
            THEN Returned("createComment", header, input, FALSE, "Post not found",
                          NULL, Stored)
            ELSE IF ~posts[input.post_id][1].can_comment
            THEN Returned("createComment", header, input, FALSE,
                          "Comments are disabled for this post", NULL, Stored)
            ELSE LET comment == [post |-> input.post_id, author |-> user_id,
                                 is_approved |-> AutoApproved(user_id)]
                 IN  Returned("createComment", header, input, TRUE,
                              "Comment created successfully",
                              Some(Len(comments) + 1),
                              [Stored EXCEPT !.comments = Append(@, Some(comment))])
    IN  Authenticated("createComment", header, input, body)

\* ApproveComment.mutate, under require_auth and require_role
ApproveComment(header, id) ==
    LET args == [id |-> id]
        body(user_id) ==
            IF id \notin StoredIds(comments)
            THEN Returned("approveComment", header, args, FALSE,
                          "Comment not found", NULL, Stored)
            ELSE Returned("approveComment", header, args, TRUE,
                          "Comment approved", Some(id),
                          [Stored EXCEPT
                             !.comments[id] =
                                 Some([comments[id][1] EXCEPT !.is_approved = TRUE]),
                             !.activity_logs =
                                 Append(@, ActivityLogOf(user_id, "update_profile",
                                                         "Approved comment"))])
        role(user_id) ==
            IF RequireRole({"admin", "moderator"}, user_id) # NULL
            THEN Raised("approveComment", header, args,
                        RequireRole({"admin", "moderator"}, user_id)[1])
            ELSE body(user_id)
    IN  Authenticated("approveComment", header, args, role)

\* post.comments.filter(is_approved=True)
ApprovedCommentsOf(post_id) ==
    {i \in CommentsOf(post_id) : comments[i][1].is_approved}

\* Query.resolve_post_comments
PostComments(post_id) ==
    [mutation |-> "postComments", args |-> [post_id |-> post_id],
     comments |-> IF post_id \in StoredIds(posts)
                  THEN ApprovedCommentsOf(post_id) ELSE {}]

\* PostType.resolve_can_edit; request_user is request.user, NULL when the
\* request has no authenticated user
CanEdit(post, request_user) ==
    IF request_user = NULL THEN FALSE
    ELSE \/ post.author = request_user[1]
         \/ ProfileOf(request_user[1]).role \in {"admin", "moderator"}

\* PostType.resolve_can_delete
CanDelete(post, request_user) ==
    IF request_user = NULL THEN FALSE
    ELSE \/ post.author = request_user[1]
         \/ ProfileOf(request_user[1]).role \in {"admin"}

\* Query.resolve_post with the fields of PostType
PostQuery(request_user, id) ==
    LET args == [id |-> id, request_user |-> request_user]
    IN  IF id \notin StoredIds(posts)
        THEN [mutation |-> "post", args |-> args, found |-> FALSE,
              comments |-> {}, comment_count |-> 0,
              can_edit |-> FALSE, can_delete |-> FALSE]
        ELSE [mutation |-> "post", args |-> args, found |-> TRUE,
              comments |-> ApprovedCommentsOf(id),
              comment_count |-> Cardinality(ApprovedCommentsOf(id)),
              can_edit |-> CanEdit(posts[id][1], request_user),
              can_delete |-> CanDelete(posts[id][1], request_user)]

InitP ==
    /\ profiles = <<>>
    /\ posts = <<>>
    /\ comments = <<>>

\* the answer and the tables one mutation leaves behind
Apply4(outcome) ==
    /\ reply4' = outcome.reply
    /\ users' = outcome.stored.users
    /\ profiles' = outcome.stored.profiles
    /\ posts' = outcome.stored.posts
    /\ comments' = outcome.stored.comments
    /\ activity_logs' = outcome.stored.activity_logs
    /\ UNCHANGED <<vars, vars5, vars2>>

\* the fixture all_users: get_or_create, set_password and the role written
\* to the profile, for each of the three users
CreateFixtureUsers ==
    /\ reply4 = NoResponse
    /\ users = <<>>
    /\ users' = [id \in DOMAIN FixtureUsers |->
                    [id |-> id,
                     username |-> FixtureUsers[id].username,
                     email |-> FixtureUsers[id].email,
                     password |-> MakePassword("password123"),
                     is_active |-> TRUE]]
    /\ profiles' = [id \in DOMAIN FixtureUsers |->
                       [role |-> FixtureUsers[id].role, bio |-> ""]]
    /\ UNCHANGED <<posts, comments, activity_logs, reply4, vars, vars5, vars2>>

CallUpdateProfile ==
    /\ reply4 = NoResponse
    /\ Len(activity_logs) < MaxPostLogs
    /\ \E header \in AuthHeaderInputs, bio \in BioInputs :
         Apply4(UpdateProfile(header, [bio |-> bio]))

CallChangePassword ==
    /\ reply4 = NoResponse
    /\ Len(activity_logs) < MaxPostLogs
    /\ \E header \in AuthHeaderInputs, input \in ChangePasswordInputs :
         Apply4(ChangePassword(header, input))

CallCreatePost ==
    /\ reply4 = NoResponse
    /\ Len(activity_logs) < MaxPostLogs
    /\ Len(posts) < MaxPosts
    /\ \E header \in AuthHeaderInputs, input \in CreatePostInputs :
         Apply4(CreatePost(header, input))

CallUpdatePost ==
    /\ reply4 = NoResponse
    /\ Len(activity_logs) < MaxPostLogs
    /\ \E header \in AuthHeaderInputs, id \in PostIdInputs, input \in UpdatePostInputs :
         Apply4(UpdatePost(header, id, input))

CallDeletePost ==
    /\ reply4 = NoResponse
    /\ Len(activity_logs) < MaxPostLogs
    /\ \E header \in AuthHeaderInputs, id \in PostIdInputs :
         Apply4(DeletePost(header, id))

CallCreateComment ==
    /\ reply4 = NoResponse
    /\ Len(comments) < MaxComments
    /\ \E header \in AuthHeaderInputs, post_id \in PostIdInputs :
         Apply4(CreateComment(header, [post_id |-> post_id]))

CallApproveComment ==
    /\ reply4 = NoResponse
    /\ Len(activity_logs) < MaxPostLogs
    /\ \E header \in AuthHeaderInputs, id \in CommentIdInputs :
         Apply4(ApproveComment(header, id))

\* one postComments query
ResolvePostComments ==
    /\ reply4 = NoResponse
    /\ \E post_id \in PostIdInputs : reply4' = PostComments(post_id)
    /\ UNCHANGED <<users, activity_logs, varsP, vars, vars5, vars2>>

\* one post query, by a request with or without an authenticated user
ResolvePost ==
    /\ reply4 = NoResponse
    /\ \E id \in PostIdInputs,
          request_user \in {NULL} \cup {Some(user_id) : user_id \in DOMAIN users} :
         reply4' = PostQuery(request_user, id)
    /\ UNCHANGED <<users, activity_logs, varsP, vars, vars5, vars2>>

NextPosts ==
    \/ CreateFixtureUsers
    \/ CallUpdateProfile
    \/ CallChangePassword
    \/ CallCreatePost
    \/ CallUpdatePost
    \/ CallDeletePost
    \/ CallCreateComment
    \/ CallApproveComment
    \/ ResolvePostComments
    \/ ResolvePost
    \/ Respond4

(***************************************************************************)
(* Properties of app 3.                                                    *)
(***************************************************************************)
Ids(S) == {p.id : p \in S}

NoDuplicates(s) == \A i, j \in 1..Len(s) : i # j => s[i] # s[j]

\* s is a sequence of ids in the order ORDER BY [-]field allows
SortedBy(s, field, desc) ==
    \A i, j \in 1..Len(s) :
        i < j => MayPrecede(ProductById(s[i]), ProductById(s[j]), field, desc)

\* the total order of the sort contract: the sort field in the requested
\* direction, rows of equal value by ascending id
Precedes(p, q, field, desc) ==
    \/ MayPrecede(p, q, field, desc) /\ ~MayPrecede(q, p, field, desc)
    \/ MayPrecede(p, q, field, desc) /\ MayPrecede(q, p, field, desc) /\ p.id < q.id

\* n is ceil(count / size), for size >= 1
IsCeiling(n, count, size) == n * size >= count /\ (n - 1) * size < count

\* the request was answered by productsFiltered without a GraphQL error
FilteredOk == response.query = "productsFiltered" /\ response.error = NULL

\* the rows the request's filters select (what total_count counts)
Selected == ApplyFilters(AllProducts, response.args.filters)

\* C1: with a fixed page_size >= 1 and an unchanged store, the items of the
\* pages 1..total_pages, concatenated, are the full filtered, sorted set:
\* every selected product once and only once, in the requested order.
C1_OffsetPagesComplete ==
    (client.mode = "offset" /\ client.done) =>
        /\ NoDuplicates(client.acc)
        /\ Range(client.acc) = Ids(ApplyFilters(AllProducts, client.filters))
        /\ SortedBy(client.acc, SortField(client.sort), SortDesc(client.sort))

\* C2: for page_size >= 1 the reported total_pages is
\* ceil(total_count / page_size), and 0 when total_count is 0; total_count
\* is the number of selected products.
C2_TotalPagesIsCeiling ==
    (FilteredOk /\ response.args.page_size >= 1) =>
        LET r == response.result[1]
        IN  /\ r.total_count = Cardinality(Selected)
            /\ r.page_size = response.args.page_size
            /\ IsCeiling(r.total_pages, r.total_count, r.page_size)
            /\ (r.total_count = 0 => r.total_pages = 0)

\* C2 witness: three selected products in pages of two make two pages
C2_Witness ==
    /\ FilteredOk
    /\ response.result[1].total_count = 3
    /\ response.result[1].page_size = 2
    /\ response.result[1].total_pages = 2

\* C3: for page >= 1 and page_size >= 1, has_previous = (page > 1),
\* has_next = (page < total_pages), and has_next holds exactly when a
\* selected product lies after the returned slice of the ordered listing.
C3_HasNextHasPrevious ==
    (response.query = "productsFiltered" /\ response.args.page >= 1
        /\ response.args.page_size >= 1) =>
        /\ response.error = NULL
        /\ LET r == response.result[1]
               offset == (response.args.page - 1) * response.args.page_size
           IN  /\ r.has_previous = (response.args.page > 1)
               /\ r.has_next = (response.args.page < r.total_pages)
               /\ r.items = Slice(response.view, offset,
                                  offset + response.args.page_size)
               /\ r.has_next =
                    (\E i \in 1..Len(response.view) :
                        i > offset + response.args.page_size)

\* C3 witness: a middle page, with a page before it and a page after it
C3_Witness ==
    /\ FilteredOk
    /\ response.args.page = 2
    /\ response.args.page_size = 1
    /\ response.result[1].has_next
    /\ response.result[1].has_previous
    /\ Len(response.result[1].items) = 1

\* C4: for page_size >= 1, a page beyond total_pages (any page >= 1 when
\* nothing is selected) is answered without error: items is empty, has_next
\* is false, has_previous = (page > 1), total_count is the size of the
\* selected set.
C4_PageBeyondRange ==
    (response.query = "productsFiltered" /\ response.args.page >= 1
        /\ response.args.page_size >= 1
        /\ \E n \in 0..Cardinality(Selected) :
              /\ IsCeiling(n, Cardinality(Selected), response.args.page_size)
              /\ response.args.page > n) =>
        /\ response.error = NULL
        /\ response.result[1].items = <<>>
        /\ response.result[1].has_next = FALSE
        /\ response.result[1].has_previous = (response.args.page > 1)
        /\ response.result[1].total_count = Cardinality(Selected)

\* C4 witness: four selected products, page_size 2, page 5
C4_Witness ==
    /\ FilteredOk
    /\ response.result[1].total_count = 4
    /\ response.args.page_size = 2
    /\ response.args.page = 5
    /\ response.result[1].items = <<>>
    /\ response.result[1].has_previous

\* the ceiling of page_size the specification asks for (no such limit
\* exists in the resolver)
max_page_size == 100

\* C5: page and page_size are validated before use: a request with
\* page < 1 or page_size outside 1..max_page_size is rejected with a
\* validation error or clamped, so the pagination arithmetic only ever
\* runs with page >= 1 and 1 <= page_size <= max_page_size.
C5_PaginationInputsValidated ==
    response.query = "productsFiltered" =>
        IF response.error # NULL
        THEN /\ response.error[1] \in {"InvalidPage", "InvalidPageSize"}
             /\ \/ response.args.page < 1
                \/ response.args.page_size < 1
                \/ response.args.page_size > max_page_size
        ELSE /\ response.result[1].page >= 1
             /\ response.result[1].page_size >= 1
             /\ response.result[1].page_size <= max_page_size

\* the filter contract: every key supplied (non-null) is applied, with AND
Matches(p, f) ==
    /\ f.name # NULL => IContains(p.name, f.name[1])
    /\ f.category_id # NULL => p.category_id = f.category_id[1]
    /\ f.is_active # NULL => p.is_active = f.is_active[1]
    /\ f.is_featured # NULL => p.is_featured = f.is_featured[1]
    /\ f.price_min # NULL => p.price >= f.price_min[1]
    /\ f.price_max # NULL => p.price <= f.price_max[1]
    /\ f.rating_min # NULL => p.rating >= f.rating_min[1]
    /\ f.has_stock # NULL =>
          IF f.has_stock[1] THEN p.stock_quantity > 0 ELSE p.stock_quantity = 0

\* C6: a product is in the filtered set (the set total_count counts) iff
\* it satisfies every filter key whose value is non-null, 0, false and the
\* empty string included.
C6_FilterCorrect ==
    (FilteredOk /\ response.args.page >= 1 /\ response.args.page_size >= 1) =>
        LET want == IF response.args.filters = NULL THEN AllProducts
                    ELSE {p \in AllProducts :
                            Matches(p, response.args.filters[1])}
        IN  /\ Range(response.view) = Ids(want)
            /\ response.result[1].total_count = Cardinality(want)

\* C7: a sort input naming a field outside the allow-list fails with
\* InvalidSortField; no listing ordered by another field is returned.
C7_InvalidSortFieldRejected ==
    (response.query = "productsFiltered" /\ response.args.sort # NULL
        /\ response.args.sort[1].field \notin SortAllowList
        /\ response.args.page >= 1 /\ response.args.page_size >= 1) =>
        response.error = Some("InvalidSortField")

\* C8: the order of the filtered set is the total order fixed by the
\* request: the sort field and direction (created_at descending when no
\* sort is given), products of equal sort value by ascending id.
C8_SortTotalOrder ==
    (FilteredOk /\ response.args.page >= 1 /\ response.args.page_size >= 1
        /\ (response.args.sort = NULL
            \/ response.args.sort[1].field \in SortAllowList)) =>
        \A i, j \in 1..Len(response.view) :
            i < j => Precedes(ProductById(response.view[i]),
                              ProductById(response.view[j]),
                              SortField(response.args.sort),
                              SortDesc(response.args.sort))

\* the cursors productsPaginated can have issued: one per stored product
IssuedCursors == {Cursor(p.id) : p \in AllProducts}

\* C9: productsPaginated with an 'after' that is not a cursor it issued
\* fails with InvalidCursor; it never answers with the first page.
C9_InvalidCursorRejected ==
    (response.query = "productsPaginated" /\ response.args.after # NULL
        /\ response.args.after[1] \notin IssuedCursors
        /\ response.args.first >= 1) =>
        response.error = Some("InvalidCursor")

\* the items of all pages of a cursor walk, in the order fetched
RECURSIVE Concat(_)
Concat(pages) ==
    IF pages = <<>> THEN <<>>
    ELSE pages[1].items \o Concat(Tail(pages))

\* C10: following end_cursor from after = null on an unchanged store, no
\* product is returned on two pages, each page starts strictly after the
\* record its cursor names, and the pages concatenated are the full
\* filtered set in created_at-descending order.
C10_CursorWalkMonotone ==
    client.mode = "cursor" =>
        LET all == Concat(client.pages)
            want == ApplyArgFilters(AllProducts, client.name,
                                    client.category_id, client.is_active)
        IN  /\ NoDuplicates(all)
            /\ \A k \in 1..Len(client.pages) :
                 client.pages[k].after # NULL =>
                   \A i \in 1..Len(client.pages[k].items) :
                      /\ client.pages[k].after[1] \in IssuedCursors
                      /\ Precedes(ProductById(client.pages[k].after[1][2]),
                                  ProductById(client.pages[k].items[i]),
                                  "created_at", TRUE)
            /\ client.complete =>
                 /\ Range(all) = Ids(want)
                 /\ SortedBy(all, "created_at", TRUE)

\* C11: in the page_info of productsPaginated, has_previous_page is true
\* whenever the request supplied a valid 'after' cursor (one the resolver
\* issued) and false when no cursor was supplied.
C11_HasPreviousPage ==
    (response.query = "productsPaginated" /\ response.error = NULL
        /\ response.args.first >= 1) =>
        LET page_info == response.result[1].page_info
        IN  /\ (response.args.after # NULL
                  /\ response.args.after[1] \in IssuedCursors)
                 => page_info.has_previous_page
            /\ response.args.after = NULL => ~page_info.has_previous_page

(***************************************************************************)
(* Properties of the aggregates and of the cache of app 5.                 *)
(***************************************************************************)
\* the stored metrics of the type a performanceSummary asked for
MetricsAsked ==
    {m \in Range(performances) : m.metric_type = reply5.args.metric_type}

\* C12: when no record matches, the aggregate resolvers report the average
\* as null (never 0), the count as 0 and min/max as null, and do not raise:
\* avgProductPrice with no products, performanceSummary with no metric of
\* the requested type.
C12_EmptySetAggregates ==
    /\ (response.query = "avgProductPrice" /\ products = <<>>) =>
          /\ response.error = NULL
          /\ response.result = NULL
    /\ (reply5.query = "performanceSummary" /\ MetricsAsked = {}) =>
          /\ reply5.error = NULL
          /\ reply5.result[1].average_value = NULL
          /\ reply5.result[1].count = 0
          /\ reply5.result[1].max_value = NULL
          /\ reply5.result[1].min_value = NULL

\* the number of stored employees of the organization with is_active = true
ActiveEmployees(org) ==
    Cardinality({i \in 1..Len(employees) :
                    /\ employees[i] # NULL
                    /\ employees[i][1].organization_id = org
                    /\ employees[i][1].is_active})

\* C13: writes to the employees of an organization invalidate its cached
\* count: every get_employee_count_cached returns the organization's
\* current number of active employees, never a count cached before a write
\* changed that number.
C13_CacheInvalidatedOnWrite ==
    reply5.query = "get_employee_count_cached" =>
        reply5.result = Some(ActiveEmployees(reply5.args.id))

\* C14: a get_employee_count_cached that finds no entry under the
\* organization's key returns the current number of active employees and
\* stores exactly that value under that key; one that finds an entry
\* returns the stored value and leaves the cache unchanged.
C14_ReadThrough ==
    [][(reply5 = NoResponse /\ reply5'.query = "get_employee_count_cached") =>
          LET org == reply5'.args.id
              key == CacheKey(org)
          IN  IF cache[key] = NULL
              THEN /\ reply5'.result = Some(ActiveEmployees(org))
                   /\ cache' = [cache EXCEPT ![key] = Some(ActiveEmployees(org))]
              ELSE /\ reply5'.result = cache[key]
                   /\ cache' = cache]_allvars

\* a call answered from the cache with a value that a recount would not
\* give, and a call after which the cache holds a fresh count of an
\* organization that has active employees
C14_Witness ==
    /\ reply5.query = "get_employee_count_cached"
    /\ reply5.result # Some(ActiveEmployees(reply5.args.id))
    /\ \E org \in Organizations :
         ActiveEmployees(org) > 0 /\ cache[CacheKey(org)] = Some(ActiveEmployees(org))

(***************************************************************************)
(* Properties of app 4.                                                    *)
(***************************************************************************)
\* the mutation answered just now
Answered4(mutation) == reply4 # NoResponse /\ reply4.mutation = mutation

NoSharedUsername ==
    \A i, j \in 1..Len(users) : i # j => users[i].username # users[j].username

NoSharedEmail ==
    \A i, j \in 1..Len(users) : i # j => users[i].email # users[j].email

\* C15: after any sequence of register mutations no two users share a
\* username and no two users share an email; a register whose username or
\* email already belongs to a user returns success = false with user and
\* token null, and creates neither a user nor an activity log entry.
C15_RegisterUnique ==
    [][/\ NoSharedUsername'
       /\ NoSharedEmail'
       /\ (/\ reply4 = NoResponse
           /\ Answered4("register")'
           /\ \E u \in Range(users) :
                \/ u.username = reply4'.args.username
                \/ u.email = reply4'.args.email)
          => /\ ~reply4'.success
             /\ reply4'.user = NULL
             /\ reply4'.token = NULL
             /\ users' = users
             /\ activity_logs' = activity_logs]_allvars

\* the users a login with these arguments may log in: the username is
\* theirs, the password is the one their stored password was made from, and
\* they are active
MayLogin(args) ==
    {u \in Range(users) : /\ u.username = args.username
                          /\ u.password = MakePassword(args.password)
                          /\ u.is_active}

\* C16: login returns success = true with a non-null token iff a user with
\* that username exists, the password matches the stored one and the user
\* is active; in every other case success = false, token and user are null
\* and no activity log entry is written.
C16_LoginOutcome ==
    [][(reply4 = NoResponse /\ Answered4("login")') =>
          IF MayLogin(reply4'.args) # {}
          THEN /\ reply4'.success
               /\ reply4'.token # NULL
               /\ \E u \in MayLogin(reply4'.args) : reply4'.user = Some(u.id)
          ELSE /\ ~reply4'.success
               /\ reply4'.token = NULL
               /\ reply4'.user = NULL
               /\ activity_logs' = activity_logs]_allvars

\* a login refused although username and password are right: the user is
\* not active
C16_Witness ==
    /\ Answered4("login")
    /\ ~reply4.success
    /\ \E u \in Range(users) : /\ u.username = reply4.args.username
                               /\ u.password = MakePassword(reply4.args.password)
                               /\ ~u.is_active

(***************************************************************************)
(* Properties of app 2.                                                    *)
(***************************************************************************)
\* the mutation answered just now
Answered2(mutation) == reply2 # NoResponse /\ reply2.mutation = mutation

\* the ReviewInput of a createReview or updateReview
ReviewInputOf(reply) ==
    IF reply.mutation = "createReview" THEN reply.args ELSE reply.args.input

\* the stored reviews of a book
StoredReviewsOf(book_id) ==
    {i \in 1..Len(reviews) : reviews[i] # NULL /\ reviews[i][1].book_id = book_id}

\* C17: every stored review has a rating in 1..5; a createReview or
\* updateReview whose rating is below 1 or above 5 returns success = false
\* with review = null and stores or changes no review.
C17_RatingInRange ==
    [][/\ \A i \in 1..Len(reviews') :
            reviews'[i] # NULL => reviews'[i][1].rating \in 1..5
       /\ (/\ reply2 = NoResponse
           /\ (Answered2("createReview") \/ Answered2("updateReview"))'
           /\ ReviewInputOf(reply2').rating \notin 1..5)
          => /\ ~reply2'.success
             /\ reply2'.object = NULL
             /\ reviews' = reviews]_allvars

\* a createReview refused for its rating alone: the book is stored and has
\* no review
C17_Witness ==
    /\ Answered2("createReview")
    /\ ~reply2.success
    /\ reply2.args.rating > 5
    /\ reply2.args.book_id \in 1..Len(books)
    /\ books[reply2.args.book_id] # NULL
    /\ StoredReviewsOf(reply2.args.book_id) = {}

\* C18: every book has at most one review; a createReview for a book that
\* already has a review returns success = false with review = null and
\* leaves the existing review unchanged.
C18_OneReviewPerBook ==
    [][/\ (\A b \in 1..Len(books) : Cardinality(StoredReviewsOf(b)) <= 1)'
       /\ (/\ reply2 = NoResponse
           /\ Answered2("createReview")'
           /\ StoredReviewsOf(reply2'.args.book_id) # {})
          => /\ ~reply2'.success
             /\ reply2'.object = NULL
             /\ reviews' = reviews]_allvars

\* a createReview with a valid rating and text refused because the book
\* has a review
C18_Witness ==
    /\ Answered2("createReview")
    /\ ~reply2.success
    /\ reply2.args.rating \in 1..5
    /\ reply2.args.review_text # ""
    /\ Cardinality(StoredReviewsOf(reply2.args.book_id)) = 1

\* C19: every stored book's author is a stored author and every stored
\* review's book is a stored book; a successful deleteAuthor removes every
\* book of that author and the reviews of those books.
C19_ReferentialIntegrity ==
    [][/\ \A i \in 1..Len(books') :
            books'[i] # NULL =>
               /\ books'[i][1].author_id \in 1..Len(authors')
               /\ authors'[books'[i][1].author_id] # NULL
       /\ \A i \in 1..Len(reviews') :
            reviews'[i] # NULL =>
               /\ reviews'[i][1].book_id \in 1..Len(books')
               /\ books'[reviews'[i][1].book_id] # NULL
       /\ (reply2 = NoResponse /\ Answered2("deleteAuthor")' /\ reply2'.success)
          => LET gone == {b \in 1..Len(books) :
                            /\ books[b] # NULL
                            /\ books[b][1].author_id = reply2'.args.id}
             IN  /\ authors'[reply2'.args.id] = NULL
                 /\ \A b \in gone : books'[b] = NULL
                 /\ \A r \in 1..Len(reviews) :
                      (reviews[r] # NULL /\ reviews[r][1].book_id \in gone)
                         => reviews'[r] = NULL]_allvars

\* a deleteAuthor has succeeded and no author, book or review is left of
\* the one author, two books and one review ever stored
C19_Witness ==
    /\ Answered2("deleteAuthor")
    /\ reply2.success
    /\ Len(authors) = 1 /\ Len(books) = 2 /\ Len(reviews) = 1
    /\ authors[1] = NULL
    /\ books[1] = NULL /\ books[2] = NULL
    /\ reviews[1] = NULL

\* C20: whenever createBook returns success = false (pages = -10, an
\* unknown author or publisher, a duplicate ISBN) the stored books are the
\* same as before the call.
C20_FailedCreateBookStoresNothing ==
    [][(reply2 = NoResponse /\ Answered2("createBook")' /\ ~reply2'.success)
          => books' = books]_allvars

\* C21: Book.clean, run by full_clean, raises a validation error on the
\* 'pages' field exactly when pages is set and is less than or equal to
\* zero, zero included: an unset or positive pages value passes.
C21_PagesMustBePositive ==
    Answered2("Book.full_clean") =>
        LET pages == reply2.args.pages
        IN  (reply2.errors # NULL) <=> (pages # NULL /\ pages[1] <= 0)

\* C28: a successful updateBook keeps, for every optional field that the
\* input omits (publisher_id, pages, isbn), the value the book had before
\* the call, and changes no other book; a failed updateBook leaves the
\* stored books as they were.
OmittedKept(before, after, input) ==
    /\ input.publisher_id = NULL => after.publisher_id = before.publisher_id
    /\ input.pages = NULL => after.pages = before.pages
    /\ input.isbn = NULL => after.isbn = before.isbn

C28_UpdateBookFrame ==
    [][(reply2 = NoResponse /\ Answered2("updateBook")') =>
          LET id == reply2'.args.id
              input == reply2'.args.input
          IN  IF reply2'.success
              THEN /\ OmittedKept(books[id][1], books'[id][1], input)
                   /\ \A other \in DOMAIN books \ {id} :
                          books'[other] = books[other]
              ELSE books' = books]_allvars

\* C22: for every set of stored test results, testSummary reports
\* passed + failed + skipped = total_tests, and total_tests is the number
\* of stored test results.
C22_SummaryCountsAddUp ==
    (reply5 # NoResponse /\ reply5.query = "testSummary") =>
        /\ reply5.passed + reply5.failed + reply5.skipped = reply5.total_tests
        /\ reply5.total_tests = Len(test_results)

\* a summary over stored results of more than one status
C22_Witness ==
    /\ reply5 # NoResponse
    /\ reply5.query = "testSummary"
    /\ reply5.total_tests >= 2
    /\ reply5.passed >= 1
    /\ reply5.failed + reply5.skipped >= 1

\* the steps of the DataLoader: a load hands out one more promise, a
\* dispatch is the last call and hands out none
IsLoad == Len(promises') = Len(promises) + 1
IsDispatch == loader_op'.op = "dispatch" /\ Len(promises') = Len(promises)

\* C29: when batch_fn returns one result per key in key order, a dispatch
\* over pending requests calls batch_fn once with the pending keys in load
\* order, resolves every pending promise with the result at its position,
\* caches each key's result and empties the queue; a load of a cached key
\* returns a promise already resolved with the cached value and queues
\* nothing; a dispatch on an empty queue does not call batch_fn.
C29_BatchedDispatch ==
    [][/\ (IsDispatch /\ loader.queue # <<>> /\ loader_op'.batch_fn = "exact") =>
            /\ batch_calls' =
                 Append(batch_calls,
                        [i \in DOMAIN loader.queue |-> loader.queue[i].key])
            /\ \A i \in DOMAIN loader.queue :
                 /\ promises'[loader.queue[i].promise] =
                        Fulfilled(Fetch(loader.queue[i].key))
                 /\ loader'.cache[loader.queue[i].key] =
                        Some(Fetch(loader.queue[i].key))
            /\ loader'.queue = <<>>
       /\ (IsLoad /\ loader.cache[loader_op'.key] # NULL) =>
            /\ promises'[loader_op'.promise] =
                   Fulfilled(loader.cache[loader_op'.key][1])
            /\ loader'.queue = loader.queue
       /\ (IsDispatch /\ loader.queue = <<>>) => batch_calls' = batch_calls
      ]_allvars

\* C30: for any batch_fn, every promise handed out by load for an uncached
\* key is still in the queue or has been resolved: no request leaves the
\* queue with its promise pending.
C30_NoRequestLost ==
    \A p \in DOMAIN promises :
        promises[p] = Pending =>
            \E i \in DOMAIN loader.queue : loader.queue[i].promise = p

\* the mutations wrapped in require_auth
AuthMutations ==
    {"updateProfile", "changePassword", "createPost", "updatePost", "deletePost",
     "createComment", "approveComment"}

\* a header 'Bearer <token>' whose token is valid, unexpired and names a
\* stored user
Authentic(header) ==
    /\ header # NULL
    /\ header[1].scheme = "Bearer"
    /\ \E user_id \in DOMAIN users : header[1].token = GenerateToken(user_id)

\* the user a well-formed token names, and that user's role
Caller(header) == header[1].token[2]
Role(user_id) ==
    IF user_id \in DOMAIN profiles THEN profiles[user_id].role ELSE "user"

\* one call of a mutation: the answer appears
Called4(mutation) == reply4 = NoResponse /\ Answered4(mutation)'

\* the stored records of app 4 are the same after the step
Untouched4 == UNCHANGED <<users, profiles, posts, comments, activity_logs>>

\* C23: a mutation wrapped in require_auth runs its body only for a request
\* whose Authorization header is 'Bearer <token>' with a valid, unexpired
\* token naming a stored user; for a missing header, a malformed or expired
\* token or an unknown user_id the call raises and no user, profile, post,
\* comment or activity log record is created, changed or deleted.
C23_AuthenticationGate ==
    [][\A mutation \in AuthMutations :
          (Called4(mutation) /\ ~Authentic(reply4'.header)) =>
              /\ reply4'.error # NULL
              /\ Untouched4]_allvars

\* a deletePost of a stored post with an expired token of a stored user
C23_Witness ==
    /\ Answered4("deletePost")
    /\ reply4.header = Header("Bearer", ExpiredToken(1))
    /\ reply4.error = Some("Invalid or expired token")
    /\ reply4.args.id \in StoredIds(posts)
    /\ users # <<>>

\* C24: approveComment sets a comment's is_approved only for an
\* authenticated caller whose role is 'admin' or 'moderator'; a caller with
\* role 'user' is refused with a permission error and the comment and the
\* activity log stay as they were; an unauthenticated call is refused by
\* the authentication check, never by the role check.
C24_ApproveRoleGate ==
    [][Called4("approveComment") =>
          LET header == reply4'.header
          IN  /\ comments' # comments =>
                    /\ Authentic(header)
                    /\ Role(Caller(header)) \in {"admin", "moderator"}
              /\ (Authentic(header) /\ Role(Caller(header)) = "user") =>
                    /\ reply4'.error =
                          Some("Permission denied. Required roles: admin, moderator")
                    /\ comments' = comments
                    /\ activity_logs' = activity_logs
              /\ ~Authentic(header) =>
                    /\ reply4'.error \in
                          {Some("Authentication credentials not provided"),
                           Some("Invalid or expired token"),
                           Some("User not found")}
                    /\ Untouched4]_allvars

\* a user with role 'user' was refused the approval of a stored, unapproved
\* comment
C24_Witness ==
    /\ Answered4("approveComment")
    /\ Authentic(reply4.header)
    /\ Role(Caller(reply4.header)) = "user"
    /\ reply4.error # NULL
    /\ reply4.args.id \in StoredIds(comments)
    /\ ~comments[reply4.args.id][1].is_approved

\* C25: updatePost changes a post only for its author or an admin or
\* moderator, deletePost removes it only for its author or an admin; every
\* other authenticated caller gets success = false with a permission
\* message, and the posts, comments and activity log stay as they were.
C25_PostOwnershipGate ==
    [][/\ Called4("updatePost") =>
            LET header == reply4'.header
                id == reply4'.args.id
                allowed == \/ posts[id][1].author = Caller(header)
                           \/ Role(Caller(header)) \in {"admin", "moderator"}
            IN  /\ posts' # posts =>
                      Authentic(header) /\ id \in StoredIds(posts) /\ allowed
                /\ (Authentic(header) /\ id \in StoredIds(posts) /\ ~allowed) =>
                      /\ reply4'.error = NULL
                      /\ ~reply4'.success
                      /\ reply4'.message =
                             "You don't have permission to update this post"
                      /\ Untouched4
       /\ Called4("deletePost") =>
            LET header == reply4'.header
                id == reply4'.args.id
                allowed == \/ posts[id][1].author = Caller(header)
                           \/ Role(Caller(header)) = "admin"
            IN  /\ posts' # posts =>
                      Authentic(header) /\ id \in StoredIds(posts) /\ allowed
                /\ (Authentic(header) /\ id \in StoredIds(posts) /\ ~allowed) =>
                      /\ reply4'.error = NULL
                      /\ ~reply4'.success
                      /\ reply4'.message =
                             "You don't have permission to delete this post"
                      /\ Untouched4
      ]_allvars

\* a moderator was refused the deletion of another user's post
C25_Witness ==
    /\ Answered4("deletePost")
    /\ Authentic(reply4.header)
    /\ Role(Caller(reply4.header)) = "moderator"
    /\ reply4.args.id \in StoredIds(posts)
    /\ posts[reply4.args.id][1].author # Caller(reply4.header)
    /\ ~reply4.success

\* the stored comments of a post that are approved
Visible(post_id) ==
    {i \in 1..Len(comments) :
        /\ comments[i] # NULL
        /\ comments[i][1].post = post_id
        /\ comments[i][1].is_approved}

\* C26: a comment created through createComment by a caller with role
\* 'user' is stored unapproved, one created by an admin or moderator is
\* stored approved, and createComment on a post with can_comment = false
\* creates none; a stored comment becomes approved only by a successful
\* approveComment for it by an admin or moderator; postComments and the
\* comments and comment_count of a post return exactly the approved
\* comments of the post.
C26_CommentModeration ==
    [][/\ Called4("createComment") =>
            LET header == reply4'.header
                post_id == reply4'.args.post_id
                new == Len(comments) + 1
            IN  IF reply4'.success
                THEN /\ Authentic(header)
                     /\ posts[post_id][1].can_comment
                     /\ Len(comments') = new
                     /\ comments'[new][1].post = post_id
                     /\ comments'[new][1].is_approved =
                            (Role(Caller(header)) \in {"admin", "moderator"})
                ELSE comments' = comments
       /\ \A i \in 1..Len(comments) :
            (/\ comments[i] # NULL
             /\ ~comments[i][1].is_approved
             /\ comments'[i] # NULL
             /\ comments'[i][1].is_approved) =>
                /\ Called4("approveComment")
                /\ reply4'.success
                /\ reply4'.args.id = i
                /\ Role(Caller(reply4'.header)) \in {"admin", "moderator"}
       /\ Called4("postComments") =>
            reply4'.comments = Visible(reply4'.args.post_id)
       /\ Called4("post") =>
            /\ reply4'.comments = Visible(reply4'.args.id)
            /\ reply4'.comment_count = Cardinality(Visible(reply4'.args.id))
      ]_allvars

\* postComments returns a comment written by a user with role 'user', which
\* an approveComment has approved
C26_Witness ==
    /\ Answered4("postComments")
    /\ \E i \in reply4.comments : Role(comments[i][1].author) = "user"

\* C27: for every stored post and every authenticated user, can_edit is
\* true exactly when updatePost by that user on that post passes its
\* permission check, and can_delete exactly when deletePost does.
C27_FlagsAgreeWithMutations ==
    [][/\ (/\ Called4("updatePost")
           /\ Authentic(reply4'.header)
           /\ reply4'.args.id \in StoredIds(posts)) =>
              (CanEdit(posts[reply4'.args.id][1], Some(Caller(reply4'.header)))
                 <=> reply4'.message # "You don't have permission to update this post")
       /\ (/\ Called4("deletePost")
           /\ Authentic(reply4'.header)
           /\ reply4'.args.id \in StoredIds(posts)) =>
              (CanDelete(posts[reply4'.args.id][1], Some(Caller(reply4'.header)))
                 <=> reply4'.message # "You don't have permission to delete this post")
      ]_allvars

\* an updatePost by a moderator on another user's post has passed the check
C27_Witness ==
    /\ Answered4("updatePost")
    /\ reply4.success
    /\ Role(Caller(reply4.header)) = "moderator"
    /\ posts[reply4.args.id][1].author # Caller(reply4.header)

(***************************************************************************)
(* The specifications: one per application.                                *)
(***************************************************************************)
InitAll == Init /\ Init5 /\ InitT /\ InitL /\ Init4 /\ InitP /\ Init2

Spec == InitAll /\ [][Next]_allvars

SpecAgg == InitAll /\ [][NextAgg]_allvars

Spec5 == InitAll /\ [][Next5]_allvars

Spec4 == InitAll /\ [][Next4]_allvars

Spec2 == InitAll /\ [][Next2]_allvars


SpecClean == InitAll /\ [][NextClean]_allvars

SpecTests == InitAll /\ [][NextTests]_allvars

SpecLoader == InitAll /\ [][NextLoader]_allvars

SpecPosts == InitAll /\ [][NextPosts]_allvars

====
